---- MODULE Spec2Model ----
(***************************************************************************)
(* A model of the Go port of libphonenumber (phonenumberutil.go).          *)
(*                                                                         *)
(* Go strings are modelled as what they are: sequences of bytes 0..255.    *)
(* Regular expressions are modelled by their syntax tree and matched the   *)
(* way Go's regexp package matches them (UTF-8 decoding with U+FFFD for an *)
(* invalid byte, unanchored search, leftmost-first choice).                *)
(* A uint64 is modelled by its canonical decimal digit sequence, because   *)
(* national numbers exceed the integers TLC computes with.                 *)
(***************************************************************************)
EXTENDS Integers, Sequences, FiniteSets, TLC

VARIABLES
    instance,                                 \* var instance *PhoneNumberUtil
    created,                                  \* PhoneNumberUtil objects created so far
    supportedRegions,
    nanpaRegions,
    countryCodesForNonGeographicalRegion,
    regionToMetadataMap,
    countryCodeToNonGeographicalMetadataMap,
    loads,                                    \* metadata collections unmarshalled so far
    regexCache,
    pc,                                       \* position of each goroutine
    local,                                    \* locals of each goroutine
    fatal,                                    \* the fatal error the runtime stopped with
    numA, numB,                               \* the caller's PhoneNumber objects
    text,                                     \* the caller's last formatted string
    verdict                                   \* the caller's last match results

vars == << instance, created, supportedRegions, nanpaRegions,
           countryCodesForNonGeographicalRegion, regionToMetadataMap,
           countryCodeToNonGeographicalMetadataMap, loads, regexCache,
           pc, local, fatal, numA, numB, text, verdict >>

(***************************************************************************)
(* Optional values (nil pointers, unset proto2 fields).                    *)
(***************************************************************************)
None == << >>
Some(x) == << x >>
IsSet(o) == Len(o) = 1
Val(o) == o[1]
EmptyMap == [k \in {} |-> None]                            \* a map with no key

(***************************************************************************)
(* Sequence helpers.                                                       *)
(***************************************************************************)
Slice(s, lo, hi) == [k \in 1..(hi - lo) |-> s[lo + k]]   \* Go s[lo:hi], 0-based

From(s, lo) == Slice(s, lo, Len(s))                      \* Go s[lo:]

RepeatByte(b, n) == [k \in 1..n |-> b]

HasPrefix(s, p) == Len(p) <= Len(s) /\ Slice(s, 0, Len(p)) = p

HasSuffix(s, p) == Len(p) <= Len(s) /\ From(s, Len(s) - Len(p)) = p

RECURSIVE IndexFrom(_, _, _)
IndexFrom(s, sub, i) ==
    IF i + Len(sub) > Len(s) THEN -1
    ELSE IF Slice(s, i, i + Len(sub)) = sub THEN i
    ELSE IndexFrom(s, sub, i + 1)

Index(s, sub) == IndexFrom(s, sub, 0)                    \* strings.Index

Min2(a, b) == IF a <= b THEN a ELSE b

(***************************************************************************)
(* uint64 values, as canonical decimal digit sequences (<<0>> is zero).    *)
(***************************************************************************)
RECURSIVE StripZeros(_)
StripZeros(ds) ==
    IF Len(ds) > 1 /\ Head(ds) = 0 THEN StripZeros(Tail(ds)) ELSE ds

U64(ds) == StripZeros(ds)

U64Zero == << 0 >>

MaxUint64 == << 1,8,4,4,6,7,4,4,0,7,3,7,0,9,5,5,1,6,1,5 >>

RECURSIVE DigitsLess(_, _)
DigitsLess(a, b) ==                       \* a < b, for equal lengths
    IF a = << >> THEN FALSE
    ELSE IF Head(a) # Head(b) THEN Head(a) < Head(b)
    ELSE DigitsLess(Tail(a), Tail(b))

U64Less(a, b) == Len(a) < Len(b) \/ (Len(a) = Len(b) /\ DigitsLess(a, b))

\* Long division of a digit sequence by a small divisor d: << quotient, remainder >>.
RECURSIVE LongDiv(_, _, _, _)
LongDiv(ds, d, q, rem) ==
    IF ds = << >> THEN << StripZeros(IF q = << >> THEN << 0 >> ELSE q), rem >>
    ELSE LET cur == rem * 10 + Head(ds)
         IN  LongDiv(Tail(ds), d, Append(q, cur \div d), cur % d)

U64DivMod(v, d) == LongDiv(v, d, << >>, 0)

U64Div10(v) == U64DivMod(v, 10)[1]        \* nationalNumber /= 10

\* The low n bytes of v, most significant first: byte(v >> 8(n-1)), ..., byte(v).
RECURSIVE BigEndian(_, _)
BigEndian(v, n) ==
    IF n = 0 THEN << >>
    ELSE LET qr == U64DivMod(v, 256)
         IN  Append(BigEndian(qr[1], n - 1), qr[2])

\* strconv.FormatUint(v, 10) and strconv.Itoa for small non-negative ints.
FormatUint(v) == [k \in 1..Len(v) |-> 48 + v[k]]

RECURSIVE ItoaDigits(_)
ItoaDigits(n) == IF n < 10 THEN << n >> ELSE Append(ItoaDigits(n \div 10), n % 10)

Itoa(n) == IF n < 0 THEN << 45 >> \o FormatUint(ItoaDigits(0 - n))
           ELSE FormatUint(ItoaDigits(n))

IsAsciiDigit(b) == b >= 48 /\ b <= 57

\* strconv.ParseUint(s, 10, 64) with the error dropped: 0 on a syntax error,
\* the maximum on a range error.
ParseUint(s) ==
    IF s = << >> \/ \E k \in 1..Len(s) : ~IsAsciiDigit(s[k]) THEN U64Zero
    ELSE LET v == StripZeros([k \in 1..Len(s) |-> s[k] - 48])
         IN  IF U64Less(MaxUint64, v) THEN MaxUint64 ELSE v

\* strconv.Atoi on a short string with the error dropped: an optional sign
\* and decimal digits; 0 on a syntax error.
RECURSIVE AtoiAcc(_, _)
AtoiAcc(s, acc) ==
    IF s = << >> THEN acc ELSE AtoiAcc(Tail(s), acc * 10 + (Head(s) - 48))

Atoi(s) ==
    LET signed == s # << >> /\ Head(s) \in {43, 45}
        body == IF signed THEN Tail(s) ELSE s
    IN  IF body = << >> \/ \E k \in 1..Len(body) : ~IsAsciiDigit(body[k]) THEN 0
        ELSE IF Head(s) = 45 THEN 0 - AtoiAcc(body, 0)
        ELSE AtoiAcc(body, 0)

(***************************************************************************)
(* UTF-8, as Go decodes it (range loops, package regexp): an invalid byte  *)
(* decodes to U+FFFD and has width 1.                                      *)
(***************************************************************************)
RuneError == 65533

DecodeRune(s, i) ==                        \* i: 0-based offset, i < Len(s)
    LET n  == Len(s) - i
        b0 == s[i + 1]
        b1 == IF n >= 2 THEN s[i + 2] ELSE 0
        b2 == IF n >= 3 THEN s[i + 3] ELSE 0
        b3 == IF n >= 4 THEN s[i + 4] ELSE 0
        cont(b) == b >= 128 /\ b <= 191
        lo == IF b0 = 224 THEN 160 ELSE IF b0 = 240 THEN 144 ELSE 128
        hi == IF b0 = 237 THEN 159 ELSE IF b0 = 244 THEN 143 ELSE 191
        bad == [cp |-> RuneError, w |-> 1]
    IN  IF b0 < 128 THEN [cp |-> b0, w |-> 1]
        ELSE IF b0 >= 194 /\ b0 <= 223
             THEN IF cont(b1) THEN [cp |-> (b0 - 192) * 64 + (b1 - 128), w |-> 2]
                  ELSE bad
        ELSE IF b0 >= 224 /\ b0 <= 239
             THEN IF b1 >= lo /\ b1 <= hi /\ cont(b2)
                  THEN [cp |-> (b0 - 224) * 4096 + (b1 - 128) * 64 + (b2 - 128),
                        w |-> 3]
                  ELSE bad
        ELSE IF b0 >= 240 /\ b0 <= 244
             THEN IF b1 >= lo /\ b1 <= hi /\ cont(b2) /\ cont(b3)
                  THEN [cp |-> (b0 - 240) * 262144 + (b1 - 128) * 4096
                               + (b2 - 128) * 64 + (b3 - 128),
                        w |-> 4]
                  ELSE bad
        ELSE bad

\* The UTF-8 encoding of a code point (WriteRune, string literals).
EncodeRune(cp) ==
    IF cp < 128 THEN << cp >>
    ELSE IF cp < 2048 THEN << 192 + (cp \div 64), 128 + (cp % 64) >>
    ELSE IF cp < 65536
         THEN << 224 + (cp \div 4096), 128 + ((cp \div 64) % 64), 128 + (cp % 64) >>
    ELSE << 240 + (cp \div 262144), 128 + ((cp \div 4096) % 64),
            128 + ((cp \div 64) % 64), 128 + (cp % 64) >>

RECURSIVE Utf8(_)
Utf8(cps) == IF cps = << >> THEN << >> ELSE EncodeRune(Head(cps)) \o Utf8(Tail(cps))

\* Offset i of s starts a character: no character that starts at one of the
\* three offsets before it reaches over i.  (A byte that is not a continuation
\* byte always starts a character, and a continuation byte that starts one is
\* decoded as U+FFFD of width 1.)
IsRuneStart(s, i) ==
    ~ \E j \in 0..(i - 1) :
         /\ j >= i - 3
         /\ (s[j + 1] < 128 \/ s[j + 1] >= 192)
         /\ j + DecodeRune(s, j).w > i

\* utf8.RuneCountInString(s): the number of characters of s.
RuneCount(s) == Cardinality({ i \in 0..(Len(s) - 1) : IsRuneStart(s, i) })

(***************************************************************************)
(* Regular expressions (package regexp, RE2 syntax).  A compiled regexp is *)
(* its syntax tree.  Character classes are sets of code point ranges.      *)
(***************************************************************************)
Cls(rs) == [t |-> "cls", neg |-> FALSE, rs |-> rs]           \* [...]
NotCls(rs) == [t |-> "cls", neg |-> TRUE, rs |-> rs]         \* [^...]
Ch(c) == Cls({<< c, c >>})                                   \* one literal character
Cat(xs) == [t |-> "cat", xs |-> xs]
Alt(xs) == [t |-> "alt", xs |-> xs]                          \* x|y, in order
Rep(x, min, max) ==                                          \* x{min,max}; max -1: unbounded
    [t |-> "rep", x |-> x, min |-> min, max |-> max, lazy |-> FALSE]
LazyRep(x, min, max) ==
    [t |-> "rep", x |-> x, min |-> min, max |-> max, lazy |-> TRUE]
Grp(k, x) == [t |-> "grp", k |-> k, x |-> x]                 \* the k-th capturing group
EndText == [t |-> "end"]                                     \* $
Lit(cps) == Cat([k \in 1..Len(cps) |-> Ch(cps[k])])          \* a literal string

InCls(re, cp) == (\E r \in re.rs : r[1] <= cp /\ cp <= r[2]) # re.neg

\* The offsets at which a rune of s starts, and Len(s).
RECURSIVE RuneStartsFrom(_, _)
RuneStartsFrom(s, i) ==
    IF i >= Len(s) THEN {Len(s)}
    ELSE {i} \cup RuneStartsFrom(s, i + DecodeRune(s, i).w)

RuneStarts(s) == RuneStartsFrom(s, 0)

\* Ends(re, s, I): the offsets where a match of re that starts at an offset
\* of I can end.
RECURSIVE Ends(_, _, _)
RECURSIVE EndsCat(_, _, _, _)
RECURSIVE EndsRep(_, _, _, _, _)
RECURSIVE EndsStar(_, _, _, _)
Ends(re, s, I) ==
    CASE re.t = "cls" ->
           { j + DecodeRune(s, j).w :
               j \in { i \in I : i < Len(s) /\ InCls(re, DecodeRune(s, i).cp) } }
      [] re.t = "end" -> I \cap {Len(s)}
      [] re.t = "grp" -> Ends(re.x, s, I)
      [] re.t = "cat" -> EndsCat(re.xs, 1, s, I)
      [] re.t = "alt" -> UNION { Ends(re.xs[k], s, I) : k \in 1..Len(re.xs) }
      [] re.t = "rep" -> EndsRep(re.x, re.min, re.max, s, I)

EndsCat(xs, k, s, I) ==
    IF k > Len(xs) \/ I = {} THEN I ELSE EndsCat(xs, k + 1, s, Ends(xs[k], s, I))

EndsRep(x, min, max, s, I) ==
    IF I = {} THEN {}
    ELSE IF min > 0
         THEN EndsRep(x, min - 1, IF max = -1 THEN -1 ELSE max - 1, s, Ends(x, s, I))
    ELSE IF max = -1 THEN EndsStar(x, s, I, I)
    ELSE IF max = 0 THEN I
    ELSE I \cup EndsRep(x, 0, max - 1, s, Ends(x, s, I))

EndsStar(x, s, done, frontier) ==
    IF frontier = {} THEN done
    ELSE LET new == Ends(x, s, frontier) \ done
         IN  EndsStar(x, s, done \cup new, new)

\* (*Regexp).MatchString, (*Regexp).Match: is there a match anywhere in s.
MatchString(re, s) == Ends(re, s, RuneStarts(s)) # {}

\* Java's Matcher.matches(), which the Go code does not have: the whole of s.
FullMatch(re, s) == Len(s) \in Ends(re, s, {0})

\* Prio(re, s, i, c): the ways a match of re can start at offset i with
\* captures c, as threads [e, c] (the offset where the match ends, the
\* captures then), in the order a backtracking search tries them.  Of two
\* threads that end at the same offset the first one wins, as in the
\* leftmost-first matching of package regexp.
FirstPerEnd(threads) ==
    SelectSeq([k \in 1..Len(threads) |->
                 IF \E j \in 1..(k - 1) : threads[j].e = threads[k].e
                 THEN [e |-> -1, c |-> << >>] ELSE threads[k]],
              LAMBDA t : t.e # -1)

RECURSIVE Prio(_, _, _, _)
RECURSIVE PrioFrom(_, _, _)
RECURSIVE PrioCat(_, _, _, _)
RECURSIVE PrioAlt(_, _, _, _, _)
RECURSIVE PrioRep(_, _, _, _, _, _, _)
RECURSIVE PrioRepFrom(_, _, _, _, _, _)
Prio(re, s, i, c) ==
    CASE re.t = "cls" ->
           IF i < Len(s) /\ InCls(re, DecodeRune(s, i).cp)
           THEN << [e |-> i + DecodeRune(s, i).w, c |-> c] >> ELSE << >>
      [] re.t = "end" -> IF i = Len(s) THEN << [e |-> i, c |-> c] >> ELSE << >>
      [] re.t = "grp" ->
           LET r == Prio(re.x, s, i, c)
           IN  [k \in 1..Len(r) |->
                  [e |-> r[k].e, c |-> (re.k :> << i, r[k].e >>) @@ r[k].c]]
      [] re.t = "cat" -> PrioCat(re.xs, 1, s, << [e |-> i, c |-> c] >>)
      [] re.t = "alt" -> FirstPerEnd(PrioAlt(re.xs, 1, s, i, c))
      [] re.t = "rep" -> PrioRep(re.x, re.min, re.max, re.lazy, s, i, c)

PrioFrom(re, s, starts) ==
    IF starts = << >> THEN << >>
    ELSE Prio(re, s, Head(starts).e, Head(starts).c)
         \o PrioFrom(re, s, Tail(starts))

PrioCat(xs, k, s, cur) ==
    IF k > Len(xs) \/ cur = << >> THEN cur
    ELSE PrioCat(xs, k + 1, s, FirstPerEnd(PrioFrom(xs[k], s, cur)))

PrioAlt(xs, k, s, i, c) ==
    IF k > Len(xs) THEN << >>
    ELSE Prio(xs[k], s, i, c) \o PrioAlt(xs, k + 1, s, i, c)

PrioRep(x, min, max, lazy, s, i, c) ==
    LET less == IF max = -1 THEN -1 ELSE max - 1
        here == << [e |-> i, c |-> c] >>
    IN  IF min > 0
        THEN FirstPerEnd(PrioRepFrom(x, min - 1, less, lazy, s, Prio(x, s, i, c)))
        ELSE IF max = 0 THEN here
        ELSE LET more == PrioRepFrom(x, 0, less, lazy, s,
                                     SelectSeq(Prio(x, s, i, c), LAMBDA t : t.e # i))
             IN  FirstPerEnd(IF lazy THEN here \o more ELSE more \o here)

PrioRepFrom(x, min, max, lazy, s, starts) ==
    IF starts = << >> THEN << >>
    ELSE PrioRep(x, min, max, lazy, s, Head(starts).e, Head(starts).c)
         \o PrioRepFrom(x, min, max, lazy, s, Tail(starts))

\* The leftmost match from offset pos on: [s, e, c] (start, end, captures);
\* s = -1 when there is none.
NoMatch == [s |-> -1, e |-> -1, c |-> EmptyMap]
RECURSIVE FindMatchFrom(_, _, _)
RECURSIVE FirstMatchAt(_, _, _, _)
FindMatchFrom(re, s, pos) ==
    IF pos > Len(s) THEN NoMatch ELSE FirstMatchAt(re, s, pos, Prio(re, s, pos, EmptyMap))

\* r: the threads of a match that starts at offset pos.
FirstMatchAt(re, s, pos, r) ==
    IF r # << >> THEN [s |-> pos, e |-> Head(r).e, c |-> Head(r).c]
    ELSE IF pos = Len(s) THEN NoMatch
    ELSE FindMatchFrom(re, s, pos + DecodeRune(s, pos).w)

\* (*Regexp).FindAll*(s, -1): the successive non-overlapping matches.  An
\* empty match right after the match before it is skipped.
RECURSIVE FindAllFrom(_, _, _, _)
RECURSIVE FindAllAfter(_, _, _, _)
FindAllFrom(re, s, pos, prevEnd) ==
    FindAllAfter(re, s, prevEnd, FindMatchFrom(re, s, pos))

\* m: the leftmost match from the current offset on.
FindAllAfter(re, s, prevEnd, m) ==
    IF m.s = -1 THEN << >>
    ELSE IF m.e = m.s
         THEN (IF m.s = prevEnd THEN << >> ELSE << m >>)
              \o FindAllFrom(re, s,
                             IF m.e < Len(s) THEN m.e + DecodeRune(s, m.e).w
                             ELSE Len(s) + 1,
                             m.e)
    ELSE << m >> \o FindAllFrom(re, s, m.e, m.e)

FindAll(re, s) == FindAllFrom(re, s, 0, -1)

MatchIndex(m) == IF m.s = -1 THEN << >> ELSE << m.s, m.e >>
MatchIndexes(all) == [k \in 1..Len(all) |-> << all[k].s, all[k].e >>]
MatchStrings(s, all) == [k \in 1..Len(all) |-> Slice(s, all[k].s, all[k].e)]

\* (*Regexp).FindIndex: << start, end >>, or << >> (a nil slice).
FindIndex(re, s) == MatchIndex(FindMatchFrom(re, s, 0))

\* (*Regexp).FindString: "" when there is no match.
MatchText(s, m) == IF m.s = -1 THEN << >> ELSE Slice(s, m.s, m.e)
FindString(re, s) == MatchText(s, FindMatchFrom(re, s, 0))

\* (*Regexp).FindAllIndex(s, -1).
FindAllIndex(re, s) == MatchIndexes(FindAll(re, s))

\* (*Regexp).FindAllString(s, -1).
FindAllString(re, s) == MatchStrings(s, FindAll(re, s))

(***************************************************************************)
(* Character data.                                                         *)
(***************************************************************************)
\* The tables of package unicode are those of the Go release that builds the
\* program: Unicode 15.0.0, the version of Go 1.21 and later.
\* \p{Nd}: the decimal digits of Unicode (package unicode, table Nd), every
\* plane; each range starts at a digit zero.
NdRanges ==
    { << 48, 57 >>, << 1632, 1641 >>, << 1776, 1785 >>, << 1984, 1993 >>,
      << 2406, 2415 >>, << 2534, 2543 >>, << 2662, 2671 >>, << 2790, 2799 >>,
      << 2918, 2927 >>, << 3046, 3055 >>, << 3174, 3183 >>, << 3302, 3311 >>,
      << 3430, 3439 >>, << 3558, 3567 >>, << 3664, 3673 >>, << 3792, 3801 >>,
      << 3872, 3881 >>, << 4160, 4169 >>, << 4240, 4249 >>, << 6112, 6121 >>,
      << 6160, 6169 >>, << 6470, 6479 >>, << 6608, 6617 >>, << 6784, 6793 >>,
      << 6800, 6809 >>, << 6992, 7001 >>, << 7088, 7097 >>, << 7232, 7241 >>,
      << 7248, 7257 >>, << 42528, 42537 >>, << 43216, 43225 >>,
      << 43264, 43273 >>, << 43472, 43481 >>, << 43504, 43513 >>,
      << 43600, 43609 >>, << 44016, 44025 >>, << 65296, 65305 >>,
      << 66720, 66729 >>, << 68912, 68921 >>, << 69734, 69743 >>,
      << 69872, 69881 >>, << 69942, 69951 >>, << 70096, 70105 >>,
      << 70384, 70393 >>, << 70736, 70745 >>, << 70864, 70873 >>,
      << 71248, 71257 >>, << 71360, 71369 >>, << 71472, 71481 >>,
      << 71904, 71913 >>, << 72016, 72025 >>, << 72784, 72793 >>,
      << 73040, 73049 >>, << 73120, 73129 >>, << 73552, 73561 >>,
      << 92768, 92777 >>, << 92864, 92873 >>, << 93008, 93017 >>,
      << 120782, 120831 >>, << 123200, 123209 >>, << 123632, 123641 >>,
      << 124144, 124153 >>, << 125264, 125273 >>, << 130032, 130041 >> }

\* unicode.IsLetter: the letters of Unicode (package unicode, table L), as
\* rows of ranges, each range written as the five hexadecimal digits of its
\* first and of its last code point.
LetterTable ==
    << "000410005a000610007a000aa000aa000b5000b5000ba000ba000c0000d6000d8000f6",
       "000f8002c1002c6002d1002e0002e4002ec002ec002ee002ee00370003740037600377",
       "0037a0037d0037f0037f0038600386003880038a0038c0038c0038e003a1003a3003f5",
       "003f7004810048a0052f005310055600559005590056000588005d0005ea005ef005f2",
       "006200064a0066e0066f00671006d3006d5006d5006e5006e6006ee006ef006fa006fc",
       "006ff006ff0071000710007120072f0074d007a5007b1007b1007ca007ea007f4007f5",
       "007fa007fa00800008150081a0081a008240082400828008280084000858008600086a",
       "0087000887008890088e008a0008c900904009390093d0093d00950009500095800961",
       "0097100980009850098c0098f0099000993009a8009aa009b0009b2009b2009b6009b9",
       "009bd009bd009ce009ce009dc009dd009df009e1009f0009f1009fc009fc00a0500a0a",
       "00a0f00a1000a1300a2800a2a00a3000a3200a3300a3500a3600a3800a3900a5900a5c",
       "00a5e00a5e00a7200a7400a8500a8d00a8f00a9100a9300aa800aaa00ab000ab200ab3",
       "00ab500ab900abd00abd00ad000ad000ae000ae100af900af900b0500b0c00b0f00b10",
       "00b1300b2800b2a00b3000b3200b3300b3500b3900b3d00b3d00b5c00b5d00b5f00b61",
       "00b7100b7100b8300b8300b8500b8a00b8e00b9000b9200b9500b9900b9a00b9c00b9c",
       "00b9e00b9f00ba300ba400ba800baa00bae00bb900bd000bd000c0500c0c00c0e00c10",
       "00c1200c2800c2a00c3900c3d00c3d00c5800c5a00c5d00c5d00c6000c6100c8000c80",
       "00c8500c8c00c8e00c9000c9200ca800caa00cb300cb500cb900cbd00cbd00cdd00cde",
       "00ce000ce100cf100cf200d0400d0c00d0e00d1000d1200d3a00d3d00d3d00d4e00d4e",
       "00d5400d5600d5f00d6100d7a00d7f00d8500d9600d9a00db100db300dbb00dbd00dbd",
       "00dc000dc600e0100e3000e3200e3300e4000e4600e8100e8200e8400e8400e8600e8a",
       "00e8c00ea300ea500ea500ea700eb000eb200eb300ebd00ebd00ec000ec400ec600ec6",
       "00edc00edf00f0000f0000f4000f4700f4900f6c00f8800f8c010000102a0103f0103f",
       "01050010550105a0105d010610106101065010660106e0107001075010810108e0108e",
       "010a0010c5010c7010c7010cd010cd010d0010fa010fc012480124a0124d0125001256",
       "01258012580125a0125d01260012880128a0128d01290012b0012b2012b5012b8012be",
       "012c0012c0012c2012c5012c8012d6012d8013100131201315013180135a013800138f",
       "013a0013f5013f8013fd014010166c0166f0167f016810169a016a0016ea016f1016f8",
       "01700017110171f017310174001751017600176c0176e0177001780017b3017d7017d7",
       "017dc017dc0182001878018800188401887018a8018aa018aa018b0018f5019000191e",
       "019500196d019700197401980019ab019b0019c901a0001a1601a2001a5401aa701aa7",
       "01b0501b3301b4501b4c01b8301ba001bae01baf01bba01be501c0001c2301c4d01c4f",
       "01c5a01c7d01c8001c8801c9001cba01cbd01cbf01ce901cec01cee01cf301cf501cf6",
       "01cfa01cfa01d0001dbf01e0001f1501f1801f1d01f2001f4501f4801f4d01f5001f57",
       "01f5901f5901f5b01f5b01f5d01f5d01f5f01f7d01f8001fb401fb601fbc01fbe01fbe",
       "01fc201fc401fc601fcc01fd001fd301fd601fdb01fe001fec01ff201ff401ff601ffc",
       "02071020710207f0207f020900209c021020210202107021070210a021130211502115",
       "021190211d0212402124021260212602128021280212a0212d0212f021390213c0213f",
       "02145021490214e0214e021830218402c0002ce402ceb02cee02cf202cf302d0002d25",
       "02d2702d2702d2d02d2d02d3002d6702d6f02d6f02d8002d9602da002da602da802dae",
       "02db002db602db802dbe02dc002dc602dc802dce02dd002dd602dd802dde02e2f02e2f",
       "030050300603031030350303b0303c03041030960309d0309f030a1030fa030fc030ff",
       "031050312f031310318e031a0031bf031f0031ff0340004dbf04e000a48c0a4d00a4fd",
       "0a5000a60c0a6100a61f0a62a0a62b0a6400a66e0a67f0a69d0a6a00a6e50a7170a71f",
       "0a7220a7880a78b0a7ca0a7d00a7d10a7d30a7d30a7d50a7d90a7f20a8010a8030a805",
       "0a8070a80a0a80c0a8220a8400a8730a8820a8b30a8f20a8f70a8fb0a8fb0a8fd0a8fe",
       "0a90a0a9250a9300a9460a9600a97c0a9840a9b20a9cf0a9cf0a9e00a9e40a9e60a9ef",
       "0a9fa0a9fe0aa000aa280aa400aa420aa440aa4b0aa600aa760aa7a0aa7a0aa7e0aaaf",
       "0aab10aab10aab50aab60aab90aabd0aac00aac00aac20aac20aadb0aadd0aae00aaea",
       "0aaf20aaf40ab010ab060ab090ab0e0ab110ab160ab200ab260ab280ab2e0ab300ab5a",
       "0ab5c0ab690ab700abe20ac000d7a30d7b00d7c60d7cb0d7fb0f9000fa6d0fa700fad9",
       "0fb000fb060fb130fb170fb1d0fb1d0fb1f0fb280fb2a0fb360fb380fb3c0fb3e0fb3e",
       "0fb400fb410fb430fb440fb460fbb10fbd30fd3d0fd500fd8f0fd920fdc70fdf00fdfb",
       "0fe700fe740fe760fefc0ff210ff3a0ff410ff5a0ff660ffbe0ffc20ffc70ffca0ffcf",
       "0ffd20ffd70ffda0ffdc100001000b1000d10026100281003a1003c1003d1003f1004d",
       "100501005d10080100fa102801029c102a0102d0103001031f1032d103401034210349",
       "1035010375103801039d103a0103c3103c8103cf104001049d104b0104d3104d8104fb",
       "10500105271053010563105701057a1057c1058a1058c10592105941059510597105a1",
       "105a3105b1105b3105b9105bb105bc1060010736107401075510760107671078010785",
       "10787107b0107b2107ba108001080510808108081080a1083510837108381083c1083c",
       "1083f108551086010876108801089e108e0108f2108f4108f510900109151092010939",
       "10980109b7109be109bf10a0010a0010a1010a1310a1510a1710a1910a3510a6010a7c",
       "10a8010a9c10ac010ac710ac910ae410b0010b3510b4010b5510b6010b7210b8010b91",
       "10c0010c4810c8010cb210cc010cf210d0010d2310e8010ea910eb010eb110f0010f1c",
       "10f2710f2710f3010f4510f7010f8110fb010fc410fe010ff611003110371107111072",
       "110751107511083110af110d0110e81110311126111441114411147111471115011172",
       "111761117611183111b2111c1111c4111da111da111dc111dc1120011211112131122b",
       "1123f11240112801128611288112881128a1128d1128f1129d1129f112a8112b0112de",
       "113051130c1130f1131011313113281132a11330113321133311335113391133d1133d",
       "11350113501135d113611140011434114471144a1145f1146111480114af114c4114c5",
       "114c7114c711580115ae115d8115db116001162f116441164411680116aa116b8116b8",
       "117001171a1174011746118001182b118a0118df118ff1190611909119091190c11913",
       "1191511916119181192f1193f1193f1194111941119a0119a7119aa119d0119e1119e1",
       "119e3119e311a0011a0011a0b11a3211a3a11a3a11a5011a5011a5c11a8911a9d11a9d",
       "11ab011af811c0011c0811c0a11c2e11c4011c4011c7211c8f11d0011d0611d0811d09",
       "11d0b11d3011d4611d4611d6011d6511d6711d6811d6a11d8911d9811d9811ee011ef2",
       "11f0211f0211f0411f1011f1211f3311fb011fb01200012399124801254312f9012ff0",
       "130001342f134411344614400146461680016a3816a4016a5e16a7016abe16ad016aed",
       "16b0016b2f16b4016b4316b6316b7716b7d16b8f16e4016e7f16f0016f4a16f5016f50",
       "16f9316f9f16fe016fe116fe316fe317000187f71880018cd518d0018d081aff01aff3",
       "1aff51affb1affd1affe1b0001b1221b1321b1321b1501b1521b1551b1551b1641b167",
       "1b1701b2fb1bc001bc6a1bc701bc7c1bc801bc881bc901bc991d4001d4541d4561d49c",
       "1d49e1d49f1d4a21d4a21d4a51d4a61d4a91d4ac1d4ae1d4b91d4bb1d4bb1d4bd1d4c3",
       "1d4c51d5051d5071d50a1d50d1d5141d5161d51c1d51e1d5391d53b1d53e1d5401d544",
       "1d5461d5461d54a1d5501d5521d6a51d6a81d6c01d6c21d6da1d6dc1d6fa1d6fc1d714",
       "1d7161d7341d7361d74e1d7501d76e1d7701d7881d78a1d7a81d7aa1d7c21d7c41d7cb",
       "1df001df1e1df251df2a1e0301e06d1e1001e12c1e1371e13d1e14e1e14e1e2901e2ad",
       "1e2c01e2eb1e4d01e4eb1e7e01e7e61e7e81e7eb1e7ed1e7ee1e7f01e7fe1e8001e8c4",
       "1e9001e9431e94b1e94b1ee001ee031ee051ee1f1ee211ee221ee241ee241ee271ee27",
       "1ee291ee321ee341ee371ee391ee391ee3b1ee3b1ee421ee421ee471ee471ee491ee49",
       "1ee4b1ee4b1ee4d1ee4f1ee511ee521ee541ee541ee571ee571ee591ee591ee5b1ee5b",
       "1ee5d1ee5d1ee5f1ee5f1ee611ee621ee641ee641ee671ee6a1ee6c1ee721ee741ee77",
       "1ee791ee7c1ee7e1ee7e1ee801ee891ee8b1ee9b1eea11eea31eea51eea91eeab1eebb",
       "200002a6df2a7002b7392b7402b81d2b8202cea12ceb02ebe02f8002fa1d300003134a",
       "31350323af" >>

HexDigit(c) == (CHOOSE i \in 1..16 : SubSeq("0123456789abcdef", i, i) = c) - 1
RECURSIVE HexFrom(_, _, _, _)
HexFrom(s, k, n, acc) ==
    IF n = 0 THEN acc
    ELSE HexFrom(s, k + 1, n - 1, acc * 16 + HexDigit(SubSeq(s, k, k)))
IsLetter(cp) ==
    \E row \in 1..Len(LetterTable) :
       \E k \in 0..(Len(LetterTable[row]) \div 10 - 1) :
          /\ cp >= HexFrom(LetterTable[row], 10 * k + 1, 5, 0)
          /\ cp <= HexFrom(LetterTable[row], 10 * k + 6, 5, 0)

InRanges(cp, ranges) == \E r \in ranges : cp >= r[1] /\ cp <= r[2]

\* VALID_PUNCTUATION, as the contents of a character class.
PunctRanges ==
    { << 45, 45 >>, << 120, 120 >>, << 8208, 8213 >>, << 8722, 8722 >>,
      << 12540, 12540 >>, << 65293, 65295 >>, << 32, 32 >>, << 160, 160 >>,
      << 173, 173 >>, << 8203, 8203 >>, << 8288, 8288 >>, << 12288, 12288 >>,
      << 40, 41 >>, << 65288, 65289 >>, << 65339, 65339 >>, << 65341, 65341 >>,
      << 46, 46 >>, << 91, 91 >>, << 93, 93 >>, << 47, 47 >>, << 126, 126 >>,
      << 8275, 8275 >>, << 8764, 8764 >>, << 65374, 65374 >> }

AlphaRanges == { << 97, 122 >>, << 65, 90 >> }               \* VALID_ALPHA
PlusRanges == { << 43, 43 >>, << 65291, 65291 >> }           \* PLUS_CHARS
StarRanges == { << 42, 42 >> }                               \* STAR_SIGN

Nd == Cls(NdRanges)                                          \* DIGITS
AsciiDigit == Cls({<< 48, 57 >>})                            \* \d
Dot == NotCls({<< 10, 10 >>})                                \* .
AnyRune == NotCls({})

RFC3966_EXTN_PREFIX == << 59, 101, 120, 116, 61 >>                \* ";ext="
RFC3966_PREFIX == << 116, 101, 108, 58 >>                         \* "tel:"
RFC3966_PHONE_CONTEXT ==                                     \* ";phone-context="
    << 59, 112, 104, 111, 110, 101, 45, 99, 111, 110, 116, 101, 120, 116, 61 >>
RFC3966_ISDN_SUBADDRESS == << 59, 105, 115, 117, 98, 61 >>       \* ";isub="
DEFAULT_EXTN_PREFIX == << 32, 101, 120, 116, 46, 32 >>            \* " ext. "

(***************************************************************************)
(* The package's compiled patterns.                                        *)
(***************************************************************************)
PLUS_CHARS_PATTERN == Rep(Cls(PlusRanges), 1, -1)
SEPARATOR_PATTERN == Rep(Cls(PunctRanges), 1, -1)
CAPTURING_DIGIT_PATTERN == Grp(1, Nd)
VALID_START_CHAR_PATTERN == Cls(PlusRanges \cup NdRanges)
\* [\\/] *x
SECOND_NUMBER_START_PATTERN ==
    Cat(<< Cls({<< 92, 92 >>, << 47, 47 >>}), Rep(Ch(32), 0, -1), Ch(120) >>)
\* [[\P{N}&&\P{L}]&&[^#]]+$ as package regexp reads it: the class
\* [[\P{N}&&\P{L}] (every character is in it: none is both a number and a
\* letter), the literal "&&", the class [^#], one or more "]", the end.
UNWANTED_END_CHAR_PATTERN ==
    Cat(<< AnyRune, Ch(38), Ch(38), NotCls({<< 35, 35 >>}),
           Rep(Ch(93), 1, -1), EndText >>)
\* (?:.*?[A-Za-z]){3}.*
VALID_ALPHA_PHONE_PATTERN ==
    Cat(<< Rep(Cat(<< LazyRep(Dot, 0, -1), Cls(AlphaRanges) >>), 3, 3),
           Rep(Dot, 0, -1) >>)

CAPTURING_EXTN_DIGITS(k) == Grp(k, Rep(Nd, 1, 7))
ExtnSpaces == Cls({<< 32, 32 >>, << 160, 160 >>, << 9, 9 >>, << 44, 44 >>})
ExtnWords ==
    Alt(<< Cat(<< Rep(Ch(101), 0, 1), Lit(<< 120, 116 >>),              \* e?xt
                  Rep(Cat(<< Lit(<< 101, 110, 115, 105 >>),     \* (?:ensi
                             Alt(<< Cat(<< Ch(111), Rep(Ch(769), 0, 1) >>),
                                    Ch(243) >>) >>), 0, 1),
                  Rep(Ch(110), 0, 1) >>),                               \* n?
           Cat(<< Rep(Ch(65349), 0, 1), Ch(65368), Ch(65364),
                  Rep(Ch(65358), 0, 1) >>),
           Cls({<< 44, 44 >>, << 120, 120 >>, << 65368, 65368 >>, << 35, 35 >>,
                << 65283, 65283 >>, << 126, 126 >>, << 65374, 65374 >>}),
           Lit(<< 105, 110, 116 >>),                          \* int
           Lit(<< 97, 110, 101, 120, 111 >>),                 \* anexo
           Lit(<< 65353, 65358, 65364 >>) >>)
EXTN_PATTERNS_FOR_PARSING ==
    Alt(<< Cat(<< Lit(RFC3966_EXTN_PREFIX), CAPTURING_EXTN_DIGITS(1) >>),
           Cat(<< Rep(ExtnSpaces, 0, -1), ExtnWords,
                  Rep(Cls({<< 58, 58 >>, << 46, 46 >>, << 65294, 65294 >>}), 0, 1),
                  Rep(Cls(ExtnSpaces.rs \cup {<< 45, 45 >>}), 0, -1),
                  CAPTURING_EXTN_DIGITS(2), Rep(Ch(35), 0, 1) >>),
           Cat(<< Rep(Cls({<< 45, 45 >>, << 32, 32 >>}), 1, -1),
                  Grp(3, Rep(Nd, 1, 5)), Ch(35) >>) >>)
EXTN_PATTERN == Cat(<< EXTN_PATTERNS_FOR_PARSING, EndText >>)
VALID_PHONE_NUMBER ==
    Alt(<< Rep(Nd, 2, 2),
           Cat(<< Rep(Cls(PlusRanges), 0, -1),
                  Rep(Cat(<< Rep(Cls(PunctRanges \cup StarRanges), 0, -1), Nd >>),
                      3, -1),
                  Rep(Cls(PunctRanges \cup StarRanges \cup AlphaRanges
                            \cup NdRanges), 0, -1) >>) >>)
\* DIGITS{2} | [PLUS]*(?:[PUNCT*]*DIGITS){3,}[PUNCT*ALPHA DIGITS]*(?:EXTN)?
VALID_PHONE_NUMBER_PATTERN ==
    Alt(<< VALID_PHONE_NUMBER.xs[1],
           Cat(VALID_PHONE_NUMBER.xs[2].xs
                 \o << Rep(EXTN_PATTERNS_FOR_PARSING, 0, 1) >>) >>)

(***************************************************************************)
(* The metadata.  The generated files of the package (the PhoneNumber and  *)
(* PhoneMetadata messages, the CountryCodeToRegion table and the           *)
(* serialized metaData collection) are not part of the source tree; the    *)
(* model carries a registry of five entries in their place: two regions    *)
(* that share calling code 1, two European regions and one non-geographic  *)
(* calling code.  Patterns are named by their text; Compile gives the      *)
(* syntax tree regexp.MustCompile builds for it.                           *)
(***************************************************************************)
UNKNOWN_REGION == "ZZ"
REGION_CODE_FOR_NON_GEO_ENTITY == "001"
NANPA_COUNTRY_CODE == 1
MIN_LENGTH_FOR_NSN == 2
MAX_LENGTH_FOR_NSN == 17
MAX_LENGTH_COUNTRY_CODE == 3
MAX_INPUT_STRING_LENGTH == 250
PLUS_SIGN == 43
STAR_SIGN == 42

CountryCodeToRegion ==
    (1 :> << "US", "CA" >>) @@ (39 :> << "IT" >>) @@ (41 :> << "CH" >>)
      @@ (44 :> << "GB", "GG" >>) @@ (800 :> << "001" >>)

D(n, m) == Rep(AsciiDigit, n, m)
R(lo, hi) == << lo + 48, hi + 48 >>                          \* the digits lo-hi
Compile(pat) ==
    CASE pat = "" -> Cat(<< >>)
      [] pat = "NonMatch" -> Lit(<< 78, 111, 110, 77, 97, 116, 99, 104 >>)
      [] pat = "011" -> Lit(<< 48, 49, 49 >>)
      [] pat = "00" -> Lit(<< 48, 48 >>)
      [] pat = "0" -> Lit(<< 48 >>)
      [] pat = "1" -> Lit(<< 49 >>)
      [] pat = "[2-9]\\d{9}" -> Cat(<< Cls({R(2, 9)}), D(9, 9) >>)
      [] pat = "\\d{7}(?:\\d{3})?" -> Cat(<< D(7, 7), Rep(D(3, 3), 0, 1) >>)
      [] pat = "[2-9]\\d{8}" -> Cat(<< Cls({R(2, 9)}), D(8, 8) >>)
      [] pat = "\\d{9}" -> D(9, 9)
      [] pat = "[01589]\\d{5,10}" ->
           Cat(<< Cls({R(0, 1), R(5, 5), R(8, 9)}), D(5, 10) >>)
      [] pat = "\\d{6,11}" -> D(6, 11)
      [] pat = "\\d{8}" -> D(8, 8)
      [] pat = "[2-7]|[89]1" ->
           Alt(<< Cls({R(2, 7)}), Cat(<< Cls({R(8, 9)}), Ch(49) >>) >>)
      [] pat = "([2-9]\\d)(\\d{3})(\\d{2})(\\d{2})" ->
           Cat(<< Grp(1, Cat(<< Cls({R(2, 9)}), AsciiDigit >>)), Grp(2, D(3, 3)),
                  Grp(3, D(2, 2)), Grp(4, D(2, 2)) >>)
      [] pat = "(\\d{3})(\\d{3})(\\d{4})" ->
           Cat(<< Grp(1, D(3, 3)), Grp(2, D(3, 3)), Grp(3, D(4, 4)) >>)
      [] pat = "(\\d{4})(\\d{4})" -> Cat(<< Grp(1, D(4, 4)), Grp(2, D(4, 4)) >>)
      [] pat = "NA" -> Lit(<< 78, 65 >>)
      [] pat = "1481" -> Lit(<< 49, 52, 56, 49 >>)
      [] pat = "[1-9]\\d{9}" -> Cat(<< Cls({R(1, 9)}), D(9, 9) >>)
      [] pat = "\\d{10}" -> D(10, 10)
      [] pat = "[135789]\\d{6,9}" ->
           Cat(<< Cls({R(1, 1), R(3, 3), R(5, 5), R(7, 9)}), D(6, 9) >>)
      [] pat = "\\d{6,10}" -> D(6, 10)
      [] pat = "1481\\d{4,6}" -> Cat(<< Lit(<< 49, 52, 56, 49 >>), D(4, 6) >>)
      [] pat = "[2-6]\\d{8}" -> Cat(<< Cls({R(2, 6)}), D(8, 8) >>)
      [] pat = "7\\d{8}" -> Cat(<< Ch(55), D(8, 8) >>)
      [] pat = "800\\d{6}" -> Cat(<< Lit(<< 56, 48, 48 >>), D(6, 6) >>)
      [] pat = "8(?:00|55)\\d{7}" ->
           Cat(<< Ch(56), Alt(<< Lit(<< 48, 48 >>), Lit(<< 53, 53 >>) >>), D(7, 7) >>)
      [] pat = "900\\d{7}" -> Cat(<< Lit(<< 57, 48, 48 >>), D(7, 7) >>)
      [] pat = "0\\d{5,10}" -> Cat(<< Ch(48), D(5, 10) >>)
      [] pat = "[1589]\\d{5,10}" -> Cat(<< Cls({R(1, 1), R(5, 5), R(8, 9)}), D(5, 10) >>)
      [] pat = "0(11)15" ->
           Cat(<< Ch(48), Grp(1, Lit(<< 49, 49 >>)), Lit(<< 49, 53 >>) >>)
      [] pat = "9[0-4]\\d{9}" -> Cat(<< Ch(57), Cls({R(0, 4)}), D(9, 9) >>)

NoDesc == [NationalNumberPattern |-> "", PossibleNumberPattern |-> ""]
NoMetadata ==
    [Id |-> "", CountryCode |-> 0, InternationalPrefix |-> "",
     NationalPrefixForParsing |-> "", NationalPrefixTransformRule |-> << >>,
     GeneralDesc |-> NoDesc, NumberFormat |-> << >>, IntlNumberFormat |-> << >>,
     PreferredExtnPrefix |-> << >>]
NumFmt(pattern, format, leading, rule) ==
    [Pattern |-> pattern, Format |-> format, LeadingDigitsPattern |-> leading,
     NationalPrefixFormattingRule |-> rule,
     DomesticCarrierCodeFormattingRule |-> << >>]
Nanpa(id) ==
    [NoMetadata EXCEPT !.Id = id, !.CountryCode = 1,
       !.InternationalPrefix = "011", !.NationalPrefixForParsing = "1",
       !.GeneralDesc = [NationalNumberPattern |-> "[2-9]\\d{9}",
                        PossibleNumberPattern |-> "\\d{7}(?:\\d{3})?"]]
\* The collection proto.Unmarshal(metaData, ...) yields, in its order.
MetadataList ==
    << [Nanpa("US") EXCEPT
          !.NumberFormat =
             << NumFmt("(\\d{3})(\\d{3})(\\d{4})", << 40, 36, 49, 41, 32, 36, 50, 45, 36, 51 >>,
                       << >>, << >>) >>],
       Nanpa("CA"),
       [NoMetadata EXCEPT !.Id = "CH", !.CountryCode = 41,
          !.InternationalPrefix = "00", !.NationalPrefixForParsing = "0",
          !.GeneralDesc = [NationalNumberPattern |-> "[2-9]\\d{8}",
                           PossibleNumberPattern |-> "\\d{9}"],
          !.NumberFormat =
             << NumFmt("([2-9]\\d)(\\d{3})(\\d{2})(\\d{2})",
                       << 36, 49, 32, 36, 50, 32, 36, 51, 32, 36, 52 >>,
                       << "[2-7]|[89]1" >>, << 48, 36, 49 >>) >>],
       [NoMetadata EXCEPT !.Id = "IT", !.CountryCode = 39,
          !.InternationalPrefix = "00",
          !.GeneralDesc = [NationalNumberPattern |-> "[01589]\\d{5,10}",
                           PossibleNumberPattern |-> "\\d{6,11}"]],
       [NoMetadata EXCEPT !.Id = "GB", !.CountryCode = 44,
          !.InternationalPrefix = "00", !.NationalPrefixForParsing = "0",
          !.GeneralDesc = [NationalNumberPattern |-> "[1-9]\\d{9}",
                           PossibleNumberPattern |-> "\\d{10}"]],
       [NoMetadata EXCEPT !.Id = "GG", !.CountryCode = 44,
          !.InternationalPrefix = "00", !.NationalPrefixForParsing = "0",
          !.GeneralDesc = [NationalNumberPattern |-> "[135789]\\d{6,9}",
                           PossibleNumberPattern |-> "\\d{6,10}"]],
       [NoMetadata EXCEPT !.Id = REGION_CODE_FOR_NON_GEO_ENTITY,
          !.CountryCode = 800,
          !.GeneralDesc = [NationalNumberPattern |-> "\\d{8}",
                           PossibleNumberPattern |-> "\\d{8}"],
          !.NumberFormat =
             << NumFmt("(\\d{4})(\\d{4})", << 36, 49, 32, 36, 50 >>, << >>, << >>) >>] >>

MetadataIds == { MetadataList[k].Id : k \in 1..Len(MetadataList) }
\* A *PhoneMetadata is nil (None) or refers to an unmarshalled message:
\* [id, gen], the entry of the collection and the load that allocated it.
\* A PhoneMetadata a caller has built itself, with a transform rule: the
\* national prefix 0 and the mobile token 15 around the area code 11 are
\* replaced by a 9 before the area code.
CallerMetadata ==
    << [NoMetadata EXCEPT !.Id = "XX", !.CountryCode = 54,
          !.InternationalPrefix = "00", !.NationalPrefixForParsing = "0(11)15",
          !.NationalPrefixTransformRule = << 57, 36, 49 >>,
          !.GeneralDesc = [NationalNumberPattern |-> "9[0-4]\\d{9}",
                           PossibleNumberPattern |-> "\\d{6,11}"]] >>
AllMetadata == MetadataList \o CallerMetadata
Deref(m) ==
    IF m = None THEN NoMetadata
    ELSE AllMetadata[CHOOSE j \in 1..Len(AllMetadata) : AllMetadata[j].Id = Val(m).id]

\* The descriptors of the kinds of number of a region, its leading digits and
\* its flag, which are fields of the same PhoneMetadata message.
NADesc == [NationalNumberPattern |-> "NA", PossibleNumberPattern |-> "NA"]
Desc(national, possible) ==
    [NationalNumberPattern |-> national, PossibleNumberPattern |-> possible]
\* The getters of a nil *PhoneMetadata.
NoKinds ==
    [LeadingDigits |-> "", SameMobileAndFixedLinePattern |-> FALSE,
     FixedLine |-> NoDesc, Mobile |-> NoDesc, TollFree |-> NoDesc,
     PremiumRate |-> NoDesc, SharedCost |-> NoDesc, PersonalNumber |-> NoDesc,
     Voip |-> NoDesc, Pager |-> NoDesc, Uan |-> NoDesc, Voicemail |-> NoDesc]
\* A region that has fixed-line and mobile numbers only.
Kinds(fixedLine, mobile) ==
    [LeadingDigits |-> "", SameMobileAndFixedLinePattern |-> FALSE,
     FixedLine |-> fixedLine, Mobile |-> mobile, TollFree |-> NADesc,
     PremiumRate |-> NADesc, SharedCost |-> NADesc, PersonalNumber |-> NADesc,
     Voip |-> NADesc, Pager |-> NADesc, Uan |-> NADesc, Voicemail |-> NADesc]
NanpaKinds ==
    [Kinds(Desc("[2-9]\\d{9}", "\\d{7}(?:\\d{3})?"),
           Desc("[2-9]\\d{9}", "\\d{7}(?:\\d{3})?"))
       EXCEPT !.SameMobileAndFixedLinePattern = TRUE,
              !.TollFree = Desc("8(?:00|55)\\d{7}", "\\d{10}"),
              !.PremiumRate = Desc("900\\d{7}", "\\d{10}")]
KindsOf(id) ==
    CASE id \in { "US", "CA" } -> NanpaKinds
      [] id = "CH" ->
           [Kinds(Desc("[2-6]\\d{8}", "\\d{9}"), Desc("7\\d{8}", "\\d{9}"))
              EXCEPT !.TollFree = Desc("800\\d{6}", "\\d{9}")]
      [] id = "IT" ->
           Kinds(Desc("0\\d{5,10}", "\\d{6,11}"), Desc("[1589]\\d{5,10}", "\\d{6,11}"))
      [] id = "GB" -> Kinds(Desc("[1-9]\\d{9}", "\\d{10}"), NADesc)
      [] id = "GG" ->
           [Kinds(Desc("1481\\d{4,6}", "\\d{6,10}"), NADesc)
              EXCEPT !.LeadingDigits = "1481"]
      [] id = REGION_CODE_FOR_NON_GEO_ENTITY ->
           [Kinds(NADesc, NADesc) EXCEPT !.TollFree = Desc("\\d{8}", "\\d{8}")]
DerefKinds(m) == IF m = None THEN NoKinds ELSE KindsOf(Val(m).id)

\* The prefixes of a region as text, and whether its national numbers can
\* start with a zero: fields of the same PhoneMetadata message.
NoPrefixes ==
    [NationalPrefix |-> << >>, InternationalPrefix |-> << >>,
     PreferredInternationalPrefix |-> << >>, LeadingZeroPossible |-> FALSE]
PrefixesOf(id) ==
    CASE id \in { "US", "CA" } ->
           [NoPrefixes EXCEPT !.NationalPrefix = << 49 >>,
                              !.InternationalPrefix = << 48, 49, 49 >>]
      [] id \in { "CH", "GB", "GG" } ->
           [NoPrefixes EXCEPT !.NationalPrefix = << 48 >>,
                              !.InternationalPrefix = << 48, 48 >>]
      [] id = "IT" ->
           [NoPrefixes EXCEPT !.InternationalPrefix = << 48, 48 >>,
                              !.LeadingZeroPossible = TRUE]
      [] id = REGION_CODE_FOR_NON_GEO_ENTITY -> NoPrefixes
DerefPrefixes(m) == IF m = None THEN NoPrefixes ELSE PrefixesOf(Val(m).id)

\* *PhoneNumber: every field of the message is optional.
NewPhoneNumber ==
    [CountryCode |-> None, NationalNumber |-> None, Extension |-> None,
     ItalianLeadingZero |-> None, NumberOfLeadingZeros |-> None,
     RawInput |-> None, CountryCodeSource |-> None,
     PreferredDomesticCarrierCode |-> None]
GetCountryCode(n) == IF IsSet(n.CountryCode) THEN Val(n.CountryCode) ELSE 0
GetNationalNumber(n) ==
    IF IsSet(n.NationalNumber) THEN Val(n.NationalNumber) ELSE U64Zero
GetExtension(n) == IF IsSet(n.Extension) THEN Val(n.Extension) ELSE << >>
GetItalianLeadingZero(n) ==
    IF IsSet(n.ItalianLeadingZero) THEN Val(n.ItalianLeadingZero) ELSE FALSE
GetNumberOfLeadingZeros(n) ==
    IF IsSet(n.NumberOfLeadingZeros) THEN Val(n.NumberOfLeadingZeros) ELSE 1
GetRawInput(n) == IF IsSet(n.RawInput) THEN Val(n.RawInput) ELSE << >>
GetCountryCodeSource(n) ==
    IF IsSet(n.CountryCodeSource) THEN Val(n.CountryCodeSource)
    ELSE "FROM_NUMBER_WITH_PLUS_SIGN"

(***************************************************************************)
(* The package's mutable globals, as one value w threaded through the      *)
(* calls: w.regexCache, w.regionToMetadataMap,                             *)
(* w.countryCodeToNonGeographicalMetadataMap and w.loads, the number of    *)
(* loadMetadataFromFile calls made so far.                                 *)
(***************************************************************************)
\* pat, ok := regexCache[key]; if !ok { pat = MustCompile(key); regexCache[key] = pat }
CacheGet(w, key) ==
    Compile(IF key \in DOMAIN w.regexCache THEN w.regexCache[key] ELSE key)
CachePut(w, key) ==
    IF key \in DOMAIN w.regexCache THEN w
    ELSE [w EXCEPT !.regexCache = (key :> key) @@ @]

loadMetadataFromFile(w) ==
    LET gen == w.loads + 1
    IN  [w EXCEPT
           !.loads = gen,
           !.regionToMetadataMap =
              [r \in DOMAIN w.regionToMetadataMap \cup MetadataIds |->
                 IF r \in MetadataIds THEN Some([id |-> r, gen |-> gen])
                 ELSE w.regionToMetadataMap[r]]]

(***************************************************************************)
(* Normalization and the extraction of the number to parse.                *)
(***************************************************************************)
DIALLABLE_CHAR_MAPPINGS == [c \in (48..57) \cup {PLUS_SIGN, STAR_SIGN} |-> c]
ALPHA_MAPPINGS ==                                            \* 'A'..'Z' to its key
    [c \in 65..90 |->
       CASE c <= 67 -> 50 [] c <= 70 -> 51 [] c <= 73 -> 52 [] c <= 76 -> 53
         [] c <= 79 -> 54 [] c <= 83 -> 55 [] c <= 86 -> 56 [] OTHER -> 57]
ALPHA_PHONE_MAPPINGS == DIALLABLE_CHAR_MAPPINGS @@ ALPHA_MAPPINGS

\* unicode.ToUpper, where the result can be a key of a mapping: the ASCII
\* letters, and the two other characters whose upper case is ASCII.
ToUpper(cp) ==
    IF cp >= 97 /\ cp <= 122 THEN cp - 32
    ELSE IF cp = 305 THEN 73 ELSE IF cp = 383 THEN 83 ELSE cp

\* ind: where a pattern matches in number, or no indices.  number = number[0:ind[0]]
cutAtMatch(number, ind) == IF Len(ind) > 0 THEN Slice(number, 0, ind[1]) ELSE number

trimSecondNumber(number) ==
    cutAtMatch(number, FindIndex(SECOND_NUMBER_START_PATTERN, number))

trimUnwantedEndChars(number) ==
    cutAtMatch(number, FindIndex(UNWANTED_END_CHAR_PATTERN, number))

extractPossibleNumber(number) ==
    IF MatchString(VALID_START_CHAR_PATTERN, number)
    THEN trimSecondNumber(trimUnwantedEndChars(
             From(number, FindIndex(VALID_START_CHAR_PATTERN, number)[1])))
    ELSE << >>

isViablePhoneNumber(number) ==
    IF Len(number) < MIN_LENGTH_FOR_NSN THEN FALSE
    ELSE MatchString(VALID_PHONE_NUMBER_PATTERN, number)

\* for _, c := range []byte(number): digit := c - 48 (a byte); digit < 10.
normalizeDigits(number, keepNonDigits) ==
    SelectSeq(number, LAMBDA c : (c + 208) % 256 < 10 \/ keepNonDigits)

normalizeDigitsOnly(number) == normalizeDigits(number, FALSE)

RECURSIVE normalizeHelperFrom(_, _, _, _)
normalizeHelperFrom(number, i, normalizationReplacements, removeNonMatches) ==
    IF i >= Len(number) THEN << >>
    ELSE LET character == DecodeRune(number, i)
             upper == ToUpper(character.cp)
         IN  (IF upper \in DOMAIN normalizationReplacements
              THEN EncodeRune(normalizationReplacements[upper])
              ELSE IF ~removeNonMatches THEN EncodeRune(character.cp)
              ELSE << >>)
             \o normalizeHelperFrom(number, i + character.w,
                                    normalizationReplacements, removeNonMatches)

normalizeHelper(number, normalizationReplacements, removeNonMatches) ==
    normalizeHelperFrom(number, 0, normalizationReplacements, removeNonMatches)

normalize(number) ==
    IF MatchString(VALID_ALPHA_PHONE_PATTERN, number)
    THEN normalizeHelper(number, ALPHA_PHONE_MAPPINGS, TRUE)
    ELSE normalizeDigitsOnly(number)

normalizeDiallableCharsOnly(number) ==
    normalizeHelper(number, DIALLABLE_CHAR_MAPPINGS, TRUE)

\* [panic, nationalNumber]: panic is the run-time error of an index or a
\* slice expression out of range, "" when there is none.
NationalNumberBuilt(written) ==
    [panic |-> "",
     nationalNumber |->
        IF Index(written, RFC3966_ISDN_SUBADDRESS) > 0
        THEN Slice(written, 0, Index(written, RFC3966_ISDN_SUBADDRESS))
        ELSE written]

\* The branch of buildNationalNumberForParsing for a number that holds
\* ";phone-context=".
buildFromPhoneContext(numberToParse, indexOfPhoneContext, phoneContextStart, phoneContextEnd, indexOfNationalNumber) ==
    IF phoneContextStart >= Len(numberToParse)
    THEN [panic |-> "index out of range", nationalNumber |-> << >>]
    ELSE IF numberToParse[phoneContextStart + 1] = PLUS_SIGN
            /\ phoneContextEnd > 0
            /\ (phoneContextStart > phoneContextEnd
                  \/ phoneContextEnd > Len(numberToParse))
         THEN [panic |-> "slice bounds out of range", nationalNumber |-> << >>]
    ELSE IF indexOfNationalNumber > indexOfPhoneContext
         THEN [panic |-> "slice bounds out of range", nationalNumber |-> << >>]
    ELSE NationalNumberBuilt(
             (IF numberToParse[phoneContextStart + 1] = PLUS_SIGN
              THEN IF phoneContextEnd > 0
                   THEN Slice(numberToParse, phoneContextStart, phoneContextEnd)
                   ELSE From(numberToParse, phoneContextStart)
              ELSE << >>)
             \o Slice(numberToParse, indexOfNationalNumber, indexOfPhoneContext))

buildNationalNumberForParsing(numberToParse) ==
    LET indexOfPhoneContext == Index(numberToParse, RFC3966_PHONE_CONTEXT)
        phoneContextStart == indexOfPhoneContext + Len(RFC3966_PHONE_CONTEXT)
        indexOfRfc3966Prefix == Index(numberToParse, RFC3966_PREFIX)
    IN  IF indexOfPhoneContext > 0
        THEN buildFromPhoneContext(
                 numberToParse, indexOfPhoneContext, phoneContextStart,
                 Index(From(numberToParse, phoneContextStart), << 59 >>),
                 IF indexOfRfc3966Prefix >= 0
                 THEN indexOfRfc3966Prefix + Len(RFC3966_PREFIX) ELSE 0)
        ELSE NationalNumberBuilt(extractPossibleNumber(numberToParse))

\* [extension, number]: the extension returned, the buffer afterwards.
stripExtensionGroup(number, ind, extensionGroup) ==
    [extension |-> Slice(number, extensionGroup[1], extensionGroup[2]),
     number |-> Slice(number, 0, ind[1])]

stripExtensionAt(number, ind) ==
    IF Len(ind) > 0 /\ isViablePhoneNumber(Slice(number, 0, ind[1]))
    THEN stripExtensionGroup(number, ind, FindAllIndex(EXTN_PATTERN, number)[1])
    ELSE [extension |-> << >>, number |-> number]

maybeStripExtension(number) == stripExtensionAt(number, FindIndex(EXTN_PATTERN, number))

(***************************************************************************)
(* Registry lookups.                                                       *)
(***************************************************************************)
isValidRegionCode(regionCode) ==
    regionCode # "" /\ regionCode \in supportedRegions

hasValidCountryCallingCode(countryCallingCode) ==
    countryCallingCode \in DOMAIN CountryCodeToRegion

getRegionCodeForCountryCode(countryCallingCode) ==
    IF countryCallingCode \notin DOMAIN CountryCodeToRegion THEN UNKNOWN_REGION
    ELSE CountryCodeToRegion[countryCallingCode][1]

getMetadataForRegion(w, regionCode) ==
    IF ~isValidRegionCode(regionCode) THEN None
    ELSE IF regionCode \in DOMAIN w.regionToMetadataMap
         THEN w.regionToMetadataMap[regionCode] ELSE None

\* [w, metadata]
getMetadataForNonGeographicalRegion(w, countryCallingCode) ==
    IF countryCallingCode \notin DOMAIN CountryCodeToRegion
    THEN [w |-> w, metadata |-> None]
    ELSE IF countryCallingCode \in DOMAIN w.countryCodeToNonGeographicalMetadataMap
         THEN [w |-> w,
               metadata |-> w.countryCodeToNonGeographicalMetadataMap[countryCallingCode]]
    ELSE [w |-> loadMetadataFromFile(w), metadata |-> None]

getMetadataForRegionOrCallingCode(w, countryCallingCode, regionCode) ==
    IF REGION_CODE_FOR_NON_GEO_ENTITY = regionCode
    THEN getMetadataForNonGeographicalRegion(w, countryCallingCode)
    ELSE [w |-> w, metadata |-> getMetadataForRegion(w, regionCode)]

testNumberLengthAgainstPattern(numberPattern, number) ==
    IF MatchString(numberPattern, number) THEN "IS_POSSIBLE" ELSE "TOO_SHORT"

\* [w, short]
isShorterThanPattern(w, key, number) ==
    [w |-> CachePut(w, key),
     short |-> testNumberLengthAgainstPattern(CacheGet(w, key), number) = "TOO_SHORT"]

isShorterThanPossibleNormalNumber(w, regionMetadata, number) ==
    isShorterThanPattern(w, Deref(regionMetadata).GeneralDesc.PossibleNumberPattern,
                         number)

(***************************************************************************)
(* Prefixes and the country calling code.                                  *)
(***************************************************************************)
\* copy(dst, src), dst and src byte slices: dst afterwards.
Overwrite(dst, src) ==
    [k \in 1..Len(dst) |-> IF k <= Len(src) THEN src[k] ELSE dst[k]]

\* (*Regexp).expand: the template with $n and ${n} replaced by what group n
\* of the match m in src captured, $$ by $, and a $ that names nothing kept.
\* extract: a rune of a name, unicode.IsLetter(rune) || unicode.IsDigit(rune)
\* || rune == '_'.
IsNameByte(b) == IsAsciiDigit(b) \/ (b >= 65 /\ b <= 90) \/ (b >= 97 /\ b <= 122) \/ b = 95
IsNameRune(cp) == IsLetter(cp) \/ InRanges(cp, NdRanges)

\* The end of the name of which the bytes of str up to offset n are part.
RECURSIVE NameLen(_, _)
\* character: the rune at offset n, not an ASCII one.
NameLenAfter(str, n, character) ==
    IF IsNameRune(character.cp) THEN NameLen(str, n + character.w) ELSE n
NameLen(str, n) ==
    IF n >= Len(str) THEN n
    ELSE IF str[n + 1] < 128
         THEN IF IsNameByte(str[n + 1]) THEN NameLen(str, n + 1) ELSE n
    ELSE NameLenAfter(str, n, DecodeRune(str, n))

\* What group num of the match m in src captured.
ExpandGroup(src, m, num) ==
    IF num = 0 THEN Slice(src, m.s, m.e)
    ELSE IF num \in DOMAIN m.c THEN Slice(src, m.c[num][1], m.c[num][2])
    ELSE << >>

\* What stands for name: a group when name is a number without a leading
\* zero, nothing otherwise (the patterns have no named groups).
ExpandNamed(src, m, name) ==
    IF (\A k \in 1..Len(name) : IsAsciiDigit(name[k])) /\ Len(name) <= 9
          /\ ~(Len(name) > 1 /\ name[1] = 48)
    THEN ExpandGroup(src, m, Atoi(name))
    ELSE << >>

RECURSIVE Expand(_, _, _)
\* after: the template after a "$"; body: after without its "{" when braced;
\* n: the length of the name body starts with.
ExpandName(src, m, after, braced, body, n) ==
    IF ~(n > 0 /\ (braced => (n < Len(body) /\ body[n + 1] = 125)))
    THEN << 36 >> \o Expand(after, src, m)
    ELSE ExpandNamed(src, m, Slice(body, 0, n))
         \o Expand(From(body, IF braced THEN n + 1 ELSE n), src, m)

ExpandBody(src, m, after, braced, body) ==
    ExpandName(src, m, after, braced, body, NameLen(body, 0))

ExpandBraced(src, m, after, braced) ==
    ExpandBody(src, m, after, braced, IF braced THEN Tail(after) ELSE after)

ExpandAfter(src, m, after) ==
    IF after # << >> /\ after[1] = 36
    THEN << 36 >> \o Expand(Tail(after), src, m)
    ELSE ExpandBraced(src, m, after, after # << >> /\ after[1] = 123)

\* dollar: where the first "$" of template is.
ExpandAt(template, src, m, dollar) ==
    IF dollar < 0 THEN template
    ELSE Slice(template, 0, dollar) \o ExpandAfter(src, m, From(template, dollar + 1))

Expand(template, src, m) == ExpandAt(template, src, m, Index(template, << 36 >>))

\* (*Regexp).ReplaceAllString(src, repl).
RECURSIVE ReplaceFrom(_, _, _, _)
ReplaceFrom(src, matches, pos, repl) ==
    IF matches = << >> THEN From(src, pos)
    ELSE Slice(src, pos, Head(matches).s) \o Expand(repl, src, Head(matches))
         \o ReplaceFrom(src, Tail(matches), Head(matches).e, repl)

ReplaceAllString(re, src, repl) == ReplaceFrom(src, FindAll(re, src), 0, repl)

\* [w, stripped, number, carrierCode]: the result, and the two buffers
\* afterwards.
NotStripped(w, number, carrierCode) ==
    [w |-> w, stripped |-> FALSE, number |-> number, carrierCode |-> carrierCode]

\* The branch without a transform rule: the prefix is cut off.
stripNationalPrefixOnly(w, number, carrierCode, nationalNumberRule, isViableOriginalNumber, groups) ==
    IF isViableOriginalNumber
          /\ ~MatchString(nationalNumberRule, From(number, groups[Len(groups)][2]))
    THEN NotStripped(w, number, carrierCode)
    ELSE [w |-> w, stripped |-> TRUE,
          number |-> From(number, groups[1][2]),
          carrierCode |->
             IF Len(carrierCode) # 0 /\ Len(groups) > 0
                /\ Len(groups[Len(groups)]) # 0
             THEN carrierCode \o Slice(number, groups[1][1], groups[1][2])
             ELSE carrierCode]

\* The branch with a transform rule.  transformedNumber and
\* transformedNumBytes both alias the bytes of number: the copy rewrites the
\* buffer itself, which is what transformed is.
stripNationalPrefixByRule(w, carrierCode, prefixMatcher, nationalNumberRule, isViableOriginalNumber, numOfGroups, transformed) ==
    IF isViableOriginalNumber /\ ~MatchString(nationalNumberRule, transformed)
    THEN NotStripped(w, transformed, carrierCode)
    ELSE [w |-> w, stripped |-> TRUE, number |-> transformed,
          carrierCode |->
             IF Len(carrierCode) # 0 /\ numOfGroups > 1
             THEN carrierCode \o FindString(prefixMatcher, transformed)
             ELSE carrierCode]

\* The national prefix matches somewhere in number.
stripNationalPrefix(w, number, transformRule, carrierCode, prefixMatcher, nationalNumberRule, isViableOriginalNumber, groups) ==
    IF Len(transformRule) = 0 \/ Len(groups[Len(groups)]) = 0
    THEN stripNationalPrefixOnly(w, number, carrierCode, nationalNumberRule,
                                 isViableOriginalNumber, groups)
    ELSE stripNationalPrefixByRule(
             w, carrierCode, prefixMatcher, nationalNumberRule,
             isViableOriginalNumber, Len(groups),
             Overwrite(number, ReplaceAllString(prefixMatcher, number, transformRule)))

stripNationalPrefixWith(w, number, metadata, carrierCode, prefixMatcher, nationalNumberRule) ==
    stripNationalPrefix(w, number, Deref(metadata).NationalPrefixTransformRule,
                        carrierCode, prefixMatcher, nationalNumberRule,
                        MatchString(nationalNumberRule, number),
                        FindAllIndex(prefixMatcher, number))

\* prefixMatcher: the compiled possibleNationalPrefix; w: the world once it
\* is in the cache.
stripNationalPrefixMatching(w, number, metadata, carrierCode, prefixMatcher, ruleKey) ==
    IF ~MatchString(prefixMatcher, number) THEN NotStripped(w, number, carrierCode)
    ELSE stripNationalPrefixWith(CachePut(w, ruleKey), number, metadata, carrierCode,
                                 prefixMatcher, CacheGet(w, ruleKey))

stripPossibleNationalPrefix(w, number, metadata, carrierCode, possibleNationalPrefix) ==
    IF Len(number) = 0 \/ possibleNationalPrefix = ""
    THEN NotStripped(w, number, carrierCode)
    ELSE stripNationalPrefixMatching(
             CachePut(w, possibleNationalPrefix), number, metadata, carrierCode,
             CacheGet(w, possibleNationalPrefix),
             Deref(metadata).GeneralDesc.NationalNumberPattern)

maybeStripNationalPrefixAndCarrierCode(w, number, metadata, carrierCode) ==
    stripPossibleNationalPrefix(w, number, metadata, carrierCode,
                                Deref(metadata).NationalPrefixForParsing)

\* [panic, stripped, number]
IddNotStripped(number) == [panic |-> "", stripped |-> FALSE, number |-> number]

\* find: the digits after the match of the IDD, which ends at matchEnd.
stripIddBeforeDigits(number, matchEnd, find) ==
    IF Len(find) > 0 /\ Len(find) < 2                        \* find[1]
    THEN [panic |-> "index out of range", stripped |-> FALSE, number |-> number]
    ELSE IF Len(find) > 0 /\ normalizeDigitsOnly(find[2]) = << 48 >>
         THEN IddNotStripped(number)
    ELSE [panic |-> "", stripped |-> TRUE, number |-> From(number, matchEnd)]

stripIddAt(number, ind) ==
    IF Len(ind) = 0 THEN IddNotStripped(number)
    ELSE stripIddBeforeDigits(
             number, ind[2],
             FindAllString(CAPTURING_DIGIT_PATTERN, From(number, ind[2])))

parsePrefixAsIdd(iddPattern, number) == stripIddAt(number, FindIndex(iddPattern, number))

\* [w, panic, number, source]
IddStripped(w, idd) ==
    [w |-> w, panic |-> idd.panic, number |-> idd.number,
     source |-> IF idd.stripped THEN "FROM_NUMBER_WITH_IDD"
                ELSE "FROM_DEFAULT_COUNTRY"]

\* ind: where the plus signs of number are.
stripPlusOrIdd(w, number, possibleIddPrefix, ind) ==
    IF Len(ind) > 0
    THEN [w |-> w, panic |-> "",
          number |-> normalize(From(number, ind[Len(ind)][2])),
          source |-> "FROM_NUMBER_WITH_PLUS_SIGN"]
    ELSE IddStripped(CachePut(w, possibleIddPrefix),
                     parsePrefixAsIdd(CacheGet(w, possibleIddPrefix),
                                      normalize(number)))

maybeStripInternationalPrefixAndNormalize(w, number, possibleIddPrefix) ==
    IF Len(number) = 0
    THEN [w |-> w, panic |-> "", number |-> number,
          source |-> "FROM_DEFAULT_COUNTRY"]
    ELSE stripPlusOrIdd(w, number, possibleIddPrefix,
                        FindAllIndex(PLUS_CHARS_PATTERN, number))

\* [code, nationalNumber]
RECURSIVE extractCountryCodeFrom(_, _, _)
extractCountryCodeFrom(fullNumber, nationalNumber, i) ==
    IF ~(i <= MAX_LENGTH_COUNTRY_CODE /\ i <= Len(fullNumber))
    THEN [code |-> 0, nationalNumber |-> nationalNumber]
    ELSE LET potentialCountryCode == Atoi(Slice(fullNumber, 0, i))
         IN  IF potentialCountryCode \in DOMAIN CountryCodeToRegion
             THEN [code |-> potentialCountryCode,
                   nationalNumber |-> nationalNumber \o From(fullNumber, i)]
             ELSE extractCountryCodeFrom(fullNumber, nationalNumber, i + 1)

extractCountryCode(fullNumber, nationalNumber) ==
    IF Len(fullNumber) = 0 \/ fullNumber[1] = 48
    THEN [code |-> 0, nationalNumber |-> nationalNumber]
    ELSE extractCountryCodeFrom(fullNumber, nationalNumber, 1)

\* [w, panic, code, nationalNumber, phoneNumber]: panic is the message of
\* the panic the call ends in, "" when it returns.
Extracted(w, panic, code, nationalNumber, phoneNumber) ==
    [w |-> w, panic |-> panic, code |-> code, nationalNumber |-> nationalNumber,
     phoneNumber |-> phoneNumber]

\* return 0, at the end of maybeExtractCountryCode
NoCountryCode(w, nationalNumber, phoneNumber) ==
    Extracted(w, "", 0, nationalNumber, [phoneNumber EXCEPT !.CountryCode = Some(0)])

\* The number had a plus sign or an IDD: extracted is what extractCountryCode
\* has returned.
extractedOrPanic(w, nationalNumber, phoneNumber, extracted) ==
    IF extracted.code # 0
    THEN Extracted(w, "", extracted.code, extracted.nationalNumber,
                   [phoneNumber EXCEPT !.CountryCode = Some(extracted.code)])
    ELSE Extracted(w, "Country calling code supplied was not recognised.",
                   0, nationalNumber, phoneNumber)

\* The number starts with the calling code of the default region: potential
\* is what maybeStripNationalPrefixAndCarrierCode has made of the rest.
extractDefaultCountryCodeFrom(fullNumber, defaultCountryCode, generalDesc, nationalNumber, keepRawInput, phoneNumber, validNumberPattern, potential) ==
    IF (~MatchString(validNumberPattern, fullNumber)
          /\ MatchString(validNumberPattern, potential.number))
       \/ testNumberLengthAgainstPattern(
              CacheGet(potential.w, generalDesc.PossibleNumberPattern),
              fullNumber) = "TOO_LONG"
    THEN Extracted(CachePut(potential.w, generalDesc.PossibleNumberPattern), "",
                   defaultCountryCode, nationalNumber \o potential.number,
                   [(IF keepRawInput
                     THEN [phoneNumber EXCEPT !.CountryCodeSource =
                             Some("FROM_NUMBER_WITHOUT_PLUS_SIGN")]
                     ELSE phoneNumber)
                    EXCEPT !.CountryCode = Some(defaultCountryCode)])
    ELSE NoCountryCode(CachePut(potential.w, generalDesc.PossibleNumberPattern),
                       nationalNumber, phoneNumber)

extractDefaultCountryCode(w, fullNumber, defaultRegionMetadata, defaultCountryCode, generalDesc, nationalNumber, keepRawInput, phoneNumber) ==
    IF HasPrefix(fullNumber, Itoa(defaultCountryCode))
    THEN extractDefaultCountryCodeFrom(
             fullNumber, defaultCountryCode, generalDesc, nationalNumber,
             keepRawInput, phoneNumber,
             CacheGet(w, generalDesc.NationalNumberPattern),
             maybeStripNationalPrefixAndCarrierCode(
                 CachePut(w, generalDesc.NationalNumberPattern),
                 From(fullNumber, Len(Itoa(defaultCountryCode))),
                 defaultRegionMetadata, << >>))
    ELSE NoCountryCode(w, nationalNumber, phoneNumber)

\* fullNumber and countryCodeSource: what
\* maybeStripInternationalPrefixAndNormalize has left and returned.
extractFromFullNumber(w, fullNumber, countryCodeSource, defaultRegionMetadata, nationalNumber, keepRawInput, phoneNumber) ==
    IF countryCodeSource # "FROM_DEFAULT_COUNTRY"
    THEN IF Len(fullNumber) <= MIN_LENGTH_FOR_NSN
         THEN Extracted(w, "Phone number had an IDD, but after this was not long enough to be a viable phone number.",
                        0, nationalNumber, phoneNumber)
         ELSE extractedOrPanic(w, nationalNumber, phoneNumber,
                               extractCountryCode(fullNumber, nationalNumber))
    ELSE IF defaultRegionMetadata # None
         THEN extractDefaultCountryCode(
                  w, fullNumber, defaultRegionMetadata,
                  Deref(defaultRegionMetadata).CountryCode,
                  Deref(defaultRegionMetadata).GeneralDesc,
                  nationalNumber, keepRawInput, phoneNumber)
    ELSE NoCountryCode(w, nationalNumber, phoneNumber)

extractAfterStrip(defaultRegionMetadata, nationalNumber, keepRawInput, phoneNumber, strip) ==
    IF strip.panic # ""
    THEN Extracted(strip.w, strip.panic, 0, nationalNumber, phoneNumber)
    ELSE extractFromFullNumber(
             strip.w, strip.number, strip.source, defaultRegionMetadata,
             nationalNumber, keepRawInput,
             IF keepRawInput
             THEN [phoneNumber EXCEPT !.CountryCodeSource = Some(strip.source)]
             ELSE phoneNumber)

maybeExtractCountryCode(w, number, defaultRegionMetadata, nationalNumber, keepRawInput, phoneNumber) ==
    IF Len(number) = 0 THEN Extracted(w, "", 0, nationalNumber, phoneNumber)
    ELSE extractAfterStrip(
             defaultRegionMetadata, nationalNumber, keepRawInput, phoneNumber,
             maybeStripInternationalPrefixAndNormalize(
                 w, number,
                 IF defaultRegionMetadata # None
                 THEN Deref(defaultRegionMetadata).InternationalPrefix
                 ELSE "NonMatch"))

checkRegionForParsing(numberToParse, defaultRegion) ==
    ~(~isValidRegionCode(defaultRegion)
        /\ (Len(numberToParse) = 0
              \/ ~MatchString(PLUS_CHARS_PATTERN, numberToParse)))

RECURSIVE CountLeadingZeros(_, _)
CountLeadingZeros(nationalNumber, numberOfLeadingZeros) ==
    IF numberOfLeadingZeros < Len(nationalNumber) - 1
          /\ nationalNumber[numberOfLeadingZeros + 1] = 48
    THEN CountLeadingZeros(nationalNumber, numberOfLeadingZeros + 1)
    ELSE numberOfLeadingZeros

setItalianLeadingZerosForPhoneNumber(nationalNumber, phoneNumber) ==
    IF Len(nationalNumber) > 1 /\ nationalNumber[1] = 48
    THEN LET numberOfLeadingZeros == CountLeadingZeros(nationalNumber, 1)
         IN  [phoneNumber EXCEPT
                !.ItalianLeadingZero = Some(TRUE),
                !.NumberOfLeadingZeros =
                   IF numberOfLeadingZeros # 1 THEN Some(numberOfLeadingZeros) ELSE @]
    ELSE phoneNumber

(***************************************************************************)
(* parse.  A call ends in one of three ways: st = "ok" (a nil error),      *)
(* st = "err" (the error msg is returned) or st = "panic" (the goroutine   *)
(* panics with msg).  num is the PhoneNumber as the call leaves it.        *)
(***************************************************************************)
ErrEmpty == "The phone number supplied was empty."
ErrTooLongInput == "The string supplied was too long to parse."
ErrNotANumber == "The string supplied did not seem to be a phone number."
ErrInvalidRegion == "Missing or invalid default region."
ErrTooShortNsn == "The string supplied is too short to be a phone number."
ErrNumTooLong == "The string supplied is too long to be a phone number."
ErrInvalidCountryCode == "invalid country code"

\* [w, st, msg, num, nsn]: nsn is normalizedNationalNumber.String() as the
\* last statements of parseHelper read it, the string strconv.ParseUint is
\* given; empty when the call does not get there.
Returned(w, st, msg, phoneNumber) == [w |-> w, st |-> st, msg |-> msg, num |-> phoneNumber, nsn |-> << >>]

\* The end of parseHelper: the length of the national number is checked and
\* the number is filled in.
parseNationalNumber(w, nationalNumber, phoneNumber) ==
    IF Len(nationalNumber) < MIN_LENGTH_FOR_NSN
    THEN Returned(w, "err", ErrTooShortNsn, phoneNumber)
    ELSE IF Len(nationalNumber) > MAX_LENGTH_FOR_NSN
         THEN Returned(w, "err", ErrNumTooLong, phoneNumber)
    ELSE [Returned(w, "ok", "",
                   [setItalianLeadingZerosForPhoneNumber(nationalNumber, phoneNumber)
                      EXCEPT !.NationalNumber = Some(ParseUint(nationalNumber))])
            EXCEPT !.nsn = nationalNumber]

\* potentialNationalNumber is a buffer over the bytes of
\* normalizedNationalNumber: what is written to it lands in both.  potential
\* is what maybeStripNationalPrefixAndCarrierCode has left, shorter what
\* isShorterThanPossibleNormalNumber has returned.
parseStripped(keepRawInput, normalized, phoneNumber, potential, shorter) ==
    IF shorter.short
    THEN parseNationalNumber(shorter.w, Overwrite(normalized, potential.number),
                             phoneNumber)
    ELSE parseNationalNumber(
             shorter.w, potential.number,
             IF keepRawInput
             THEN [phoneNumber EXCEPT
                     !.PreferredDomesticCarrierCode = Some(potential.carrierCode)]
             ELSE phoneNumber)

parsePotential(keepRawInput, regionMetadata, normalized, phoneNumber, potential) ==
    parseStripped(keepRawInput, normalized, phoneNumber, potential,
                  isShorterThanPossibleNormalNumber(
                      potential.w, regionMetadata, potential.number))

\* The country calling code is settled: normalized are the digits after it.
parseNormalized(w, keepRawInput, regionMetadata, normalized, phoneNumber) ==
    IF Len(normalized) < MIN_LENGTH_FOR_NSN
    THEN Returned(w, "err", ErrTooShortNsn, phoneNumber)
    ELSE IF regionMetadata = None
         THEN parseNationalNumber(w, normalized, phoneNumber)
    ELSE parsePotential(keepRawInput, regionMetadata, normalized, phoneNumber,
                        maybeStripNationalPrefixAndCarrierCode(
                            w, normalized, regionMetadata, << >>))

\* [w, metadata, nationalNumber, phoneNumber]: regionMetadata,
\* normalizedNationalNumber and the number once the country calling code is
\* settled.
Settled(w, regionMetadata, normalizedNationalNumber, phoneNumber) ==
    [w |-> w, metadata |-> regionMetadata,
     nationalNumber |-> normalizedNationalNumber, phoneNumber |-> phoneNumber]

\* other: what getMetadataForRegionOrCallingCode has returned for the region
\* of the country calling code.
settledWithRegionOf(cc, other) ==
    Settled(other.w, other.metadata, cc.nationalNumber, cc.phoneNumber)

\* cc: what maybeExtractCountryCode has returned, without a panic.
settleCountryCode(defaultRegion, keepRawInput, nationalNumber, defaultMetadata, cc) ==
    IF cc.code # 0
    THEN IF getRegionCodeForCountryCode(cc.code) # defaultRegion
         THEN settledWithRegionOf(
                  cc, getMetadataForRegionOrCallingCode(
                          cc.w, cc.code, getRegionCodeForCountryCode(cc.code)))
         ELSE Settled(cc.w, defaultMetadata, cc.nationalNumber, cc.phoneNumber)
    ELSE Settled(
             cc.w, defaultMetadata,
             cc.nationalNumber \o normalize(nationalNumber),
             IF defaultRegion # ""
             THEN [cc.phoneNumber EXCEPT
                     !.CountryCode = Some(Deref(defaultMetadata).CountryCode)]
             ELSE IF keepRawInput
                  THEN [cc.phoneNumber EXCEPT !.CountryCodeSource = None]
             ELSE cc.phoneNumber)

parseSettled(keepRawInput, settled) ==
    parseNormalized(settled.w, keepRawInput, settled.metadata,
                    settled.nationalNumber, settled.phoneNumber)

\* cc: what maybeExtractCountryCode has returned.
parseCountryCode(defaultRegion, keepRawInput, nationalNumber, defaultMetadata, cc) ==
    IF cc.panic # "" THEN Returned(cc.w, "panic", cc.panic, cc.phoneNumber)
    ELSE parseSettled(keepRawInput,
                      settleCountryCode(defaultRegion, keepRawInput, nationalNumber,
                                        defaultMetadata, cc))

\* ext: what maybeStripExtension has returned and left.
parseExtension(w, defaultRegion, keepRawInput, phoneNumber, ext, defaultMetadata) ==
    parseCountryCode(
        defaultRegion, keepRawInput, ext.number, defaultMetadata,
        maybeExtractCountryCode(
            w, ext.number, defaultMetadata, << >>, keepRawInput,
            IF Len(ext.extension) > 0
            THEN [phoneNumber EXCEPT !.Extension = Some(ext.extension)]
            ELSE phoneNumber))

\* built: what buildNationalNumberForParsing has written.
parseBuilt(w, numberToParse, defaultRegion, keepRawInput, checkRegion, phoneNumber, built) ==
    IF built.panic # "" THEN Returned(w, "panic", built.panic, phoneNumber)
    ELSE IF ~isViablePhoneNumber(built.nationalNumber)
         THEN Returned(w, "err", ErrNotANumber, phoneNumber)
    ELSE IF checkRegion /\ ~checkRegionForParsing(built.nationalNumber, defaultRegion)
         THEN Returned(w, "err", ErrInvalidRegion, phoneNumber)
    ELSE parseExtension(
             w, defaultRegion, keepRawInput,
             IF keepRawInput
             THEN [phoneNumber EXCEPT !.RawInput = Some(numberToParse)]
             ELSE phoneNumber,
             maybeStripExtension(built.nationalNumber),
             getMetadataForRegion(w, defaultRegion))

parseHelper(w, numberToParse, defaultRegion, keepRawInput, checkRegion, phoneNumber) ==
    IF Len(numberToParse) = 0 THEN Returned(w, "err", ErrEmpty, phoneNumber)
    ELSE IF Len(numberToParse) > MAX_INPUT_STRING_LENGTH
         THEN Returned(w, "err", ErrTooLongInput, phoneNumber)
    ELSE parseBuilt(w, numberToParse, defaultRegion, keepRawInput, checkRegion,
                    phoneNumber, buildNationalNumberForParsing(numberToParse))

parseToNumber(w, numberToParse, defaultRegion, phoneNumber) ==
    parseHelper(w, numberToParse, defaultRegion, FALSE, TRUE, phoneNumber)

parse(w, numberToParse, defaultRegion) ==
    parseToNumber(w, numberToParse, defaultRegion, NewPhoneNumber)

parseAndKeepRawInput(w, numberToParse, defaultRegion) ==
    parseHelper(w, numberToParse, defaultRegion, TRUE, TRUE, NewPhoneNumber)

(***************************************************************************)
(* format.  [w, panic, out]: out is the string returned, panic the message *)
(* of the panic the call ends in ("" when it returns).                     *)
(***************************************************************************)
FIRST_GROUP_PATTERN == Grp(1, Cat(<< Ch(36), AsciiDigit >>))          \* (\$\d)
CC_PATTERN == Lit(<< 36, 67, 67 >>)                                   \* \$CC

\* [panic, nsn]: make([]byte, n) panics for a negative n.
getNationalSignificantNumber(number) ==
    LET zeros == IF GetItalianLeadingZero(number)
                 THEN RepeatByte(48, GetNumberOfLeadingZeros(number)) ELSE << >>
    IN  IF GetItalianLeadingZero(number) /\ GetNumberOfLeadingZeros(number) < 0
        THEN [panic |-> "makeslice: len out of range", nsn |-> << >>]
        ELSE [panic |-> "",
              nsn |-> zeros \o BigEndian(GetNationalNumber(number), 8)]

prefixNumberWithCountryCallingCode(countryCallingCode, numberFormat, formattedNumber) ==
    CASE numberFormat = "E164" ->
           << PLUS_SIGN >> \o Itoa(countryCallingCode) \o formattedNumber
      [] numberFormat = "INTERNATIONAL" ->
           << PLUS_SIGN >> \o Itoa(countryCallingCode) \o << 32 >> \o formattedNumber
      [] numberFormat = "RFC3966" ->
           RFC3966_PREFIX \o << PLUS_SIGN >> \o Itoa(countryCallingCode) \o << 45 >>
             \o formattedNumber
      [] OTHER -> << >>

\* [w, chosen]: chosen is None (nil) or Some(the NumberFormat).
RECURSIVE chooseFormattingPatternForNumber(_, _, _)
chooseFormattingPatternForNumber(w, availableFormats, nationalNumber) ==
    IF availableFormats = << >> THEN [w |-> w, chosen |-> None]
    ELSE LET numFormat == Head(availableFormats)
             leadingDigitsPattern == numFormat.LeadingDigitsPattern
             size == Len(leadingDigitsPattern)
             key == leadingDigitsPattern[size]
         IN  IF size = 0
             THEN chooseFormattingPatternForNumber(
                      w, Tail(availableFormats), nationalNumber)
             ELSE IF MatchString(CacheGet(w, key), nationalNumber)
                  THEN [w |-> CachePut(w, key), chosen |-> Some(numFormat)]
             ELSE chooseFormattingPatternForNumber(
                      CachePut(w, key), Tail(availableFormats), nationalNumber)

\* The first group of numberFormatRule replaced by the carrier code rule or
\* by the national prefix rule: the second argument of the
\* m.ReplaceAllString the branch taken calls.
numberFormatRuleFor(formattingPattern, numberFormat, carrierCode) ==
    IF numberFormat = "NATIONAL" /\ Len(carrierCode) > 0
         /\ Len(formattingPattern.DomesticCarrierCodeFormattingRule) > 0
    THEN ReplaceAllString(
             FIRST_GROUP_PATTERN, formattingPattern.Format,
             ReplaceAllString(CC_PATTERN,
                              formattingPattern.DomesticCarrierCodeFormattingRule,
                              carrierCode))
    ELSE IF numberFormat = "NATIONAL"
              /\ Len(formattingPattern.NationalPrefixFormattingRule) > 0
         THEN ReplaceAllString(FIRST_GROUP_PATTERN, formattingPattern.Format,
                               formattingPattern.NationalPrefixFormattingRule)
    ELSE formattingPattern.Format

\* [w, out]
formatNsnUsingPatternWithCarrier(w, nationalNumber, formattingPattern, numberFormat, carrierCode) ==
    [w |-> CachePut(w, formattingPattern.Pattern),
     out |-> ReplaceAllString(
                 CacheGet(w, formattingPattern.Pattern),
                 numberFormatRuleFor(formattingPattern, numberFormat, carrierCode),
                 nationalNumber)]

\* [w, out]; choice: what chooseFormattingPatternForNumber has returned.
formatNsnChosen(number, numberFormat, carrierCode, choice) ==
    IF choice.chosen = None THEN [w |-> choice.w, out |-> number]
    ELSE formatNsnUsingPatternWithCarrier(
             choice.w, number, Val(choice.chosen), numberFormat, carrierCode)

\* availableFormats of formatNsnWithCarrier.
availableFormatsOf(metadata, numberFormat) ==
    IF Len(Deref(metadata).IntlNumberFormat) = 0 \/ numberFormat = "NATIONAL"
    THEN Deref(metadata).NumberFormat
    ELSE Deref(metadata).IntlNumberFormat

formatNsnWithCarrier(w, number, metadata, numberFormat, carrierCode) ==
    formatNsnChosen(
        number, numberFormat, carrierCode,
        chooseFormattingPatternForNumber(
            w, availableFormatsOf(metadata, numberFormat), number))

formatNsn(w, number, metadata, numberFormat) ==
    formatNsnWithCarrier(w, number, metadata, numberFormat, << >>)

maybeAppendFormattedExtension(number, metadata, numberFormat, formattedNumber) ==
    LET extension == GetExtension(number)
        prefExtn == Deref(metadata).PreferredExtnPrefix
    IN  IF Len(extension) = 0 THEN formattedNumber
        ELSE formattedNumber
             \o (IF numberFormat = "RFC3966" THEN RFC3966_EXTN_PREFIX
                 ELSE IF Len(prefExtn) > 0 THEN prefExtn
                 ELSE DEFAULT_EXTN_PREFIX)
             \o extension

\* formatted: what formatNsn has returned.
formatPrefixed(number, numberFormat, metadata, formatted) ==
    [w |-> formatted.w, panic |-> "",
     out |-> prefixNumberWithCountryCallingCode(
                 GetCountryCode(number), numberFormat,
                 maybeAppendFormattedExtension(
                     number, metadata, numberFormat, formatted.out))]

\* found: what getMetadataForRegionOrCallingCode has returned.
formatWithMetadata(number, numberFormat, nationalSignificantNumber, found) ==
    formatPrefixed(number, numberFormat, found.metadata,
                   formatNsn(found.w, nationalSignificantNumber, found.metadata,
                             numberFormat))

\* nsn: what getNationalSignificantNumber has returned.
formatSignificantNumber(w, number, numberFormat, nsn) ==
    IF nsn.panic # "" THEN [w |-> w, panic |-> nsn.panic, out |-> << >>]
    ELSE IF numberFormat = "E164"
         THEN [w |-> w, panic |-> "",
               out |-> prefixNumberWithCountryCallingCode(
                           GetCountryCode(number), "E164", nsn.nsn)]
    ELSE IF ~hasValidCountryCallingCode(GetCountryCode(number))
         THEN [w |-> w, panic |-> "", out |-> nsn.nsn]
    ELSE formatWithMetadata(
             number, numberFormat, nsn.nsn,
             getMetadataForRegionOrCallingCode(
                 w, GetCountryCode(number),
                 getRegionCodeForCountryCode(GetCountryCode(number))))

formatWithBuf(w, number, numberFormat) ==
    formatSignificantNumber(w, number, numberFormat,
                            getNationalSignificantNumber(number))

format(w, number, numberFormat) ==
    IF GetNationalNumber(number) = U64Zero /\ Len(GetRawInput(number)) > 0
    THEN [w |-> w, panic |-> "", out |-> GetRawInput(number)]
    ELSE formatWithBuf(w, number, numberFormat)

\* proto.Merge(dst, src), dst and src *PhoneNumber (None: the nil pointer):
\* [panic, dst].  Merging into a nil destination panics.
protoMerge(dst, src) ==
    IF dst = None THEN [panic |-> "proto: nil destination", dst |-> dst]
    ELSE [panic |-> "",
          dst |-> Some([f \in DOMAIN src |-> IF src[f] # None THEN src[f]
                                              ELSE Val(dst)[f]])]

NilDereference == "invalid memory address or nil pointer dereference"

\* var numberNoExt *PhoneNumber is nil when it is merged into, and still
\* nil when numberNoExt.Extension is assigned: no statement after these two
\* is ever reached.
formatNumberForMobileDialing(w, number, regionCallingFrom, withFormatting) ==
    LET countryCallingCode == GetCountryCode(number)
        numberNoExt == None
        merged == protoMerge(numberNoExt, number)
    IN  IF ~hasValidCountryCallingCode(countryCallingCode)
        THEN [w |-> w, panic |-> "", out |-> GetRawInput(number)]
        ELSE IF merged.panic # "" THEN [w |-> w, panic |-> merged.panic, out |-> << >>]
        ELSE [w |-> w, panic |-> NilDereference, out |-> << >>]

(***************************************************************************)
(* match.  [panic, match]                                                  *)
(***************************************************************************)
\* var firstNumber, secondNumber *PhoneNumber are nil when they are merged
\* into and when firstNumber.RawInput is assigned.
isNumberMatchWithNumbers(firstNumberIn, secondNumberIn) ==
    LET firstNumber == None
        secondNumber == None
        first == protoMerge(firstNumber, firstNumberIn)
        second == protoMerge(secondNumber, secondNumberIn)
    IN  IF first.panic # "" THEN [panic |-> first.panic, match |-> "NOT_A_NUMBER"]
        ELSE IF second.panic # ""
             THEN [panic |-> second.panic, match |-> "NOT_A_NUMBER"]
        ELSE [panic |-> NilDereference, match |-> "NOT_A_NUMBER"]

\* [w, panic, match]
Matched(w, m) == [w |-> w, panic |-> m.panic, match |-> m.match]
NotANumber(w) == [w |-> w, panic |-> "", match |-> "NOT_A_NUMBER"]
MatchPanicked(w, panic) == [w |-> w, panic |-> panic, match |-> "NOT_A_NUMBER"]

\* err := parseHelper(s, "", false, false, p) with var p *PhoneNumber nil:
\* [w, st, msg], "err" when an error is returned before a field of the number
\* is written, "panic" at the first field written, with the world as it is
\* then.
IntoNil(w, st, msg) == [w |-> w, st |-> st, msg |-> msg]

\* r: what the end of parseHelper returns with a new number to write to and
\* no metadata, which leaves the world as it is.
parsedIntoNil(r) ==
    IF r.num # NewPhoneNumber \/ r.st = "ok" THEN IntoNil(r.w, "panic", NilDereference)
    ELSE IntoNil(r.w, r.st, r.msg)

\* cc: what maybeExtractCountryCode returns with a new number to write to.
\* It writes phoneNumber.CountryCode as its last statement before every
\* return but the one for an empty number.
countryCodeIntoNil(number, cc) ==
    IF cc.panic # "" THEN IntoNil(cc.w, "panic", cc.panic)
    ELSE IF cc.phoneNumber # NewPhoneNumber THEN IntoNil(cc.w, "panic", NilDereference)
    ELSE parsedIntoNil(parseNormalized(cc.w, FALSE, None,
                                       cc.nationalNumber \o normalize(number),
                                       NewPhoneNumber))

\* ext: what maybeStripExtension has returned and left.
extensionIntoNil(w, ext) ==
    IF Len(ext.extension) > 0 THEN IntoNil(w, "panic", NilDereference)
    ELSE countryCodeIntoNil(
             ext.number,
             maybeExtractCountryCode(w, ext.number, getMetadataForRegion(w, ""),
                                     << >>, FALSE, NewPhoneNumber))

\* built: what buildNationalNumberForParsing has written.
builtIntoNil(w, built) ==
    IF built.panic # "" THEN IntoNil(w, "panic", built.panic)
    ELSE IF ~isViablePhoneNumber(built.nationalNumber)
         THEN IntoNil(w, "err", ErrNotANumber)
    ELSE extensionIntoNil(w, maybeStripExtension(built.nationalNumber))

parseHelperIntoNil(w, numberToParse) ==
    IF Len(numberToParse) = 0 THEN IntoNil(w, "err", ErrEmpty)
    ELSE IF Len(numberToParse) > MAX_INPUT_STRING_LENGTH
         THEN IntoNil(w, "err", ErrTooLongInput)
    ELSE builtIntoNil(w, buildNationalNumberForParsing(numberToParse))

\* p: what parseHelperIntoNil has returned: with an error NOT_A_NUMBER is
\* returned, and no number is parsed without one.
matchWithNilNumber(p) ==
    IF p.st = "panic" THEN MatchPanicked(p.w, p.msg)
    ELSE NotANumber(p.w)

downgraded(m) ==
    IF m.panic = "" /\ m.match = "EXACT_MATCH" THEN [m EXCEPT !.match = "NSN_MATCH"]
    ELSE m

\* again: what parse(secondNumber, firstNumberRegion) has returned.
matchReparsed(firstNumber, again) ==
    IF again.st = "panic" THEN MatchPanicked(again.w, again.msg)
    ELSE IF again.st = "err" THEN NotANumber(again.w)
    ELSE Matched(again.w, downgraded(isNumberMatchWithNumbers(firstNumber, again.num)))

matchInRegion(w, firstNumber, secondNumber, firstNumberRegion) ==
    IF firstNumberRegion # UNKNOWN_REGION
    THEN matchReparsed(firstNumber, parse(w, secondNumber, firstNumberRegion))
    ELSE matchWithNilNumber(parseHelperIntoNil(w, secondNumber))

\* parsed: what parse(secondNumber, UNKNOWN_REGION) has returned.
matchWithParsed(firstNumber, secondNumber, parsed) ==
    IF parsed.st = "panic" THEN MatchPanicked(parsed.w, parsed.msg)
    ELSE IF parsed.st = "ok"
         THEN Matched(parsed.w, isNumberMatchWithNumbers(firstNumber, parsed.num))
    ELSE IF parsed.msg # ErrInvalidCountryCode THEN NotANumber(parsed.w)
    ELSE matchInRegion(parsed.w, firstNumber, secondNumber,
                       getRegionCodeForCountryCode(GetCountryCode(firstNumber)))

isNumberMatchWithOneNumber(w, firstNumber, secondNumber) ==
    matchWithParsed(firstNumber, secondNumber, parse(w, secondNumber, UNKNOWN_REGION))

\* What isNumberMatch does after parse(firstNumber, UNKNOWN_REGION) has
\* returned parsed: "match" its number with the second string, "parse" the
\* second string, or return.
afterFirstParse(parsed) ==
    IF parsed.st = "panic" THEN "panic"
    ELSE IF parsed.st = "ok" THEN "match"
    ELSE IF parsed.msg # ErrInvalidCountryCode THEN "return"
    ELSE "parse"

\* one: the number parsed, the string it is to be matched with and the
\* world after the parse.
matchTheOther(one, firstNumber) ==
    IF one.do = "panic" THEN MatchPanicked(one.w, one.msg)
    ELSE IF one.do = "return" THEN NotANumber(one.w)
    ELSE IF one.do = "nil"
         THEN matchWithNilNumber(parseHelperIntoNil(one.w, firstNumber))
    ELSE isNumberMatchWithOneNumber(one.w, one.num, one.with)

\* second: what parse(secondNumber, UNKNOWN_REGION) has returned.
theOtherOfSecond(firstNumber, second) ==
    [w |-> second.w,
     do |-> IF afterFirstParse(second) = "parse" THEN "nil" ELSE afterFirstParse(second),
     msg |-> second.msg, num |-> second.num, with |-> firstNumber]

\* first: what parse(firstNumber, UNKNOWN_REGION) has returned.
theOtherOfFirst(firstNumber, secondNumber, first) ==
    IF afterFirstParse(first) = "parse"
    THEN theOtherOfSecond(firstNumber, parse(first.w, secondNumber, UNKNOWN_REGION))
    ELSE [w |-> first.w, do |-> afterFirstParse(first), msg |-> first.msg,
          num |-> first.num, with |-> secondNumber]

matchAfterFirst(firstNumber, secondNumber, first) ==
    matchTheOther(theOtherOfFirst(firstNumber, secondNumber, first), firstNumber)

isNumberMatch(w, firstNumber, secondNumber) ==
    matchAfterFirst(firstNumber, secondNumber, parse(w, firstNumber, UNKNOWN_REGION))

(***************************************************************************)
(* Classification and validation.                                          *)
(***************************************************************************)
\* [w, match]
isNumberPossibleForDesc(w, nationalNumber, numberDesc) ==
    [w |-> CachePut(w, numberDesc.PossibleNumberPattern),
     match |-> MatchString(CacheGet(w, numberDesc.PossibleNumberPattern),
                           nationalNumber)]

\* possible: what isNumberPossibleForDesc has returned.
matchingDescAfter(nationalNumber, pat, possible) ==
    [w |-> possible.w, match |-> possible.match /\ MatchString(pat, nationalNumber)]

isNumberMatchingDesc(w, nationalNumber, numberDesc) ==
    matchingDescAfter(
        nationalNumber, CacheGet(w, numberDesc.NationalNumberPattern),
        isNumberPossibleForDesc(CachePut(w, numberDesc.NationalNumberPattern),
                                nationalNumber, numberDesc))

\* The descriptors getNumberTypeHelper tests one after the other, and the
\* type each stands for.
KindsInOrder ==
    << "PremiumRate", "TollFree", "SharedCost", "Voip", "PersonalNumber",
       "Pager", "Uan", "Voicemail" >>
TypesInOrder ==
    << "PREMIUM_RATE", "TOLL_FREE", "SHARED_COST", "VOIP", "PERSONAL_NUMBER",
       "PAGER", "UAN", "VOICEMAIL" >>

\* [w, type]
Typed(w, type) == [w |-> w, type |-> type]

\* mobile: what isNumberMatchingDesc has returned for the mobile descriptor.
typeOfMobile(mobile, whenMatching) ==
    Typed(mobile.w, IF mobile.match THEN whenMatching ELSE "UNKNOWN")
typeOfFixedLineOrMobile(mobile) ==
    Typed(mobile.w, IF mobile.match THEN "FIXED_LINE_OR_MOBILE" ELSE "FIXED_LINE")

\* isFixedLine: what isNumberMatchingDesc has returned for the fixed-line
\* descriptor.
typeAfterFixedLine(nationalNumber, kinds, isFixedLine) ==
    IF isFixedLine.match
    THEN IF kinds.SameMobileAndFixedLinePattern
         THEN Typed(isFixedLine.w, "FIXED_LINE_OR_MOBILE")
         ELSE typeOfFixedLineOrMobile(
                  isNumberMatchingDesc(isFixedLine.w, nationalNumber, kinds.Mobile))
    ELSE IF ~kinds.SameMobileAndFixedLinePattern
         THEN typeOfMobile(
                  isNumberMatchingDesc(isFixedLine.w, nationalNumber, kinds.Mobile),
                  "MOBILE")
    ELSE Typed(isFixedLine.w, "UNKNOWN")

\* The descriptors from the i-th of KindsInOrder on; matching: what
\* isNumberMatchingDesc has returned for the i-th.
RECURSIVE typeFromKind(_, _, _, _)
typeFromKind(nationalNumber, kinds, i, matching) ==
    IF matching.match THEN Typed(matching.w, TypesInOrder[i])
    ELSE IF i < Len(KindsInOrder)
         THEN typeFromKind(nationalNumber, kinds, i + 1,
                           isNumberMatchingDesc(matching.w, nationalNumber,
                                                kinds[KindsInOrder[i + 1]]))
    ELSE typeAfterFixedLine(
             nationalNumber, kinds,
             isNumberMatchingDesc(matching.w, nationalNumber, kinds.FixedLine))

\* general: what isNumberMatchingDesc has returned for the general descriptor.
typeAfterGeneral(nationalNumber, kinds, general) ==
    IF ~general.match THEN Typed(general.w, "UNKNOWN")
    ELSE typeFromKind(nationalNumber, kinds, 1,
                      isNumberMatchingDesc(general.w, nationalNumber,
                                           kinds[KindsInOrder[1]]))

getNumberTypeHelper(w, nationalNumber, metadata) ==
    IF Len(Deref(metadata).GeneralDesc.NationalNumberPattern) = 0
    THEN Typed(w, "UNKNOWN")
    ELSE typeAfterGeneral(
             nationalNumber, DerefKinds(metadata),
             isNumberMatchingDesc(w, nationalNumber, Deref(metadata).GeneralDesc))

\* [w, panic, region]
Region(w, region) == [w |-> w, panic |-> "", region |-> region]
Panicked(w, panic) == [w |-> w, panic |-> panic, region |-> ""]

\* The loop of getRegionCodeForNumberFromRegionList from the i-th region on.
RECURSIVE regionFromList(_, _, _, _)
\* typed: what getNumberTypeHelper has returned for the i-th region.
regionAfterType(nationalNumber, regionCodes, i, typed) ==
    IF typed.type # "UNKNOWN" THEN Region(typed.w, regionCodes[i])
    ELSE regionFromList(typed.w, nationalNumber, regionCodes, i + 1)
\* pat: the compiled leading digits of the i-th region.
regionAfterLeadingDigits(w, nationalNumber, regionCodes, i, pat) ==
    IF MatchString(pat, nationalNumber) THEN Region(w, regionCodes[i])
    ELSE regionFromList(w, nationalNumber, regionCodes, i + 1)
regionOfMetadata(w, nationalNumber, regionCodes, i, metadata, leadingDigits) ==
    IF Len(leadingDigits) > 0
    THEN regionAfterLeadingDigits(CachePut(w, leadingDigits), nationalNumber,
                                  regionCodes, i, CacheGet(w, leadingDigits))
    ELSE regionAfterType(nationalNumber, regionCodes, i,
                         getNumberTypeHelper(w, nationalNumber, metadata))
regionFromList(w, nationalNumber, regionCodes, i) ==
    IF i > Len(regionCodes) THEN Region(w, "")
    ELSE regionOfMetadata(
             w, nationalNumber, regionCodes, i,
             getMetadataForRegion(w, regionCodes[i]),
             DerefKinds(getMetadataForRegion(w, regionCodes[i])).LeadingDigits)

regionFromNsn(w, regionCodes, nsn) ==
    IF nsn.panic # "" THEN Panicked(w, nsn.panic)
    ELSE regionFromList(w, nsn.nsn, regionCodes, 1)

getRegionCodeForNumberFromRegionList(w, number, regionCodes) ==
    regionFromNsn(w, regionCodes, getNationalSignificantNumber(number))

regionsForCode(countryCode) ==
    IF countryCode \in DOMAIN CountryCodeToRegion
    THEN CountryCodeToRegion[countryCode] ELSE << >>

getRegionCodeForNumber(w, number) ==
    IF Len(regionsForCode(GetCountryCode(number))) = 0
    THEN Panicked(w, getNationalSignificantNumber(number).panic)
    ELSE IF Len(regionsForCode(GetCountryCode(number))) = 1
         THEN Region(w, regionsForCode(GetCountryCode(number))[1])
    ELSE getRegionCodeForNumberFromRegionList(w, number,
                                              regionsForCode(GetCountryCode(number)))

GetCountryCodeForValidRegion(w, regionCode) ==
    Deref(getMetadataForRegion(w, regionCode)).CountryCode

\* [w, panic, valid]
Valid(w, valid) == [w |-> w, panic |-> "", valid |-> valid]
validOfType(typed) == Valid(typed.w, typed.type # "UNKNOWN")
\* found: what getMetadataForRegionOrCallingCode has returned.
validForMetadata(number, regionCode, found, nsn) ==
    IF \/ found.metadata = None
       \/ /\ REGION_CODE_FOR_NON_GEO_ENTITY # regionCode
          /\ GetCountryCode(number) # GetCountryCodeForValidRegion(found.w, regionCode)
    THEN Valid(found.w, FALSE)
    ELSE IF nsn.panic # ""
         THEN [w |-> found.w, panic |-> nsn.panic, valid |-> FALSE]
    ELSE IF Len(Deref(found.metadata).GeneralDesc.NationalNumberPattern) = 0
         THEN Valid(found.w, /\ Len(nsn.nsn) > MIN_LENGTH_FOR_NSN
                             /\ Len(nsn.nsn) <= MAX_LENGTH_FOR_NSN)
    ELSE validOfType(getNumberTypeHelper(found.w, nsn.nsn, found.metadata))

isValidNumberForRegion(w, number, regionCode) ==
    validForMetadata(
        number, regionCode,
        getMetadataForRegionOrCallingCode(w, GetCountryCode(number), regionCode),
        getNationalSignificantNumber(number))

\* region: what getRegionCodeForNumber has returned.
validInRegion(number, region) ==
    IF region.panic # "" THEN [w |-> region.w, panic |-> region.panic, valid |-> FALSE]
    ELSE isValidNumberForRegion(region.w, number, region.region)

isValidNumber(w, number) == validInRegion(number, getRegionCodeForNumber(w, number))

\* [w, panic, reason]
Reason(w, reason) == [w |-> w, panic |-> "", reason |-> reason]
\* found: what getMetadataForRegionOrCallingCode has returned; pattern: the
\* possible-number pattern of its general descriptor.
reasonForMetadata(nationalNumber, found, pattern) ==
    IF Len(Deref(found.metadata).GeneralDesc.NationalNumberPattern) = 0
    THEN Reason(found.w,
                IF Len(nationalNumber) < MIN_LENGTH_FOR_NSN THEN "TOO_SHORT"
                ELSE IF Len(nationalNumber) > MAX_LENGTH_FOR_NSN THEN "TOO_LONG"
                ELSE "IS_POSSIBLE")
    ELSE Reason(CachePut(found.w, pattern),
                testNumberLengthAgainstPattern(CacheGet(found.w, pattern),
                                               nationalNumber))
reasonInRegion(nationalNumber, found) ==
    reasonForMetadata(nationalNumber, found,
                      Deref(found.metadata).GeneralDesc.PossibleNumberPattern)
reasonForNsn(w, number, nsn) ==
    IF nsn.panic # "" THEN [w |-> w, panic |-> nsn.panic, reason |-> ""]
    ELSE IF ~hasValidCountryCallingCode(GetCountryCode(number))
         THEN Reason(w, "INVALID_COUNTRY_CODE")
    ELSE reasonInRegion(
             nsn.nsn,
             getMetadataForRegionOrCallingCode(
                 w, GetCountryCode(number),
                 getRegionCodeForCountryCode(GetCountryCode(number))))

isPossibleNumberWithReason(w, number) ==
    reasonForNsn(w, number, getNationalSignificantNumber(number))

\* [w, panic, possible]
possibleOfReason(r) ==
    [w |-> r.w, panic |-> r.panic, possible |-> r.panic = "" /\ r.reason = "IS_POSSIBLE"]
isPossibleNumber(w, number) == possibleOfReason(isPossibleNumberWithReason(w, number))

\* [w, panic, type]
typeOfNsn(found, nsn) ==
    IF found.metadata = None THEN [w |-> found.w, panic |-> "", type |-> "UNKNOWN"]
    ELSE IF nsn.panic # "" THEN [w |-> found.w, panic |-> nsn.panic, type |-> ""]
    ELSE [getNumberTypeHelper(found.w, nsn.nsn, found.metadata) EXCEPT !.w = @] @@ [panic |-> ""]
typeInRegion(number, region) ==
    IF region.panic # "" THEN [w |-> region.w, panic |-> region.panic, type |-> ""]
    ELSE typeOfNsn(getMetadataForRegionOrCallingCode(region.w, GetCountryCode(number),
                                                     region.region),
                   getNationalSignificantNumber(number))
getNumberType(w, number) == typeInRegion(number, getRegionCodeForNumber(w, number))

(***************************************************************************)
(* formatInOriginalFormat.  [w, panic, out]                                *)
(***************************************************************************)
\* [\d]+(?:[~\x{2053}\x{223C}\x{FF5E}][\d]+)?
UNIQUE_INTERNATIONAL_PREFIX ==
    Cat(<< Rep(AsciiDigit, 1, -1),
           Rep(Cat(<< Cls({ << 126, 126 >>, << 8275, 8275 >>, << 8764, 8764 >>,
                           << 65374, 65374 >> }),
                      Rep(AsciiDigit, 1, -1) >>), 0, 1) >>)

\* The enum value 0, which none of the constants of CountryCodeSource has.
CountryCodeSourceZero == "0"

Formatted(w, out) == [w |-> w, panic |-> "", out |-> out]
FormatPanicked(w, panic) == [w |-> w, panic |-> panic, out |-> << >>]

isNANPACountry(regionCode) == regionCode \in nanpaRegions

getNddPrefixForRegion(w, regionCode, stripNonDigits) ==
    IF getMetadataForRegion(w, regionCode) = None THEN << >>
    ELSE IF stripNonDigits
         THEN SelectSeq(DerefPrefixes(getMetadataForRegion(w, regionCode)).NationalPrefix,
                        LAMBDA b : b # 126)
    ELSE DerefPrefixes(getMetadataForRegion(w, regionCode)).NationalPrefix

\* found: what getMetadataForRegionOrCallingCode has returned.
isLeadingZeroPossibleIn(found) ==
    [w |-> found.w, possible |-> DerefPrefixes(found.metadata).LeadingZeroPossible]
\* [w, possible]
isLeadingZeroPossible(w, countryCallingCode) ==
    isLeadingZeroPossibleIn(
        getMetadataForRegionOrCallingCode(
            w, countryCallingCode, getRegionCodeForCountryCode(countryCallingCode)))

unexpectedIfNot(possible) == [w |-> possible.w, unexpected |-> ~possible.possible]
\* [w, unexpected]
hasUnexpectedItalianLeadingZero(w, number) ==
    IF ~GetItalianLeadingZero(number) THEN [w |-> w, unexpected |-> FALSE]
    ELSE unexpectedIfNot(isLeadingZeroPossible(w, GetCountryCode(number)))

\* choice: what chooseFormattingPatternForNumber has returned.
hasPatternChosen(choice) == [w |-> choice.w, panic |-> "", has |-> choice.chosen # None]
hasFormattingPatternIn(found, nsn) ==
    IF found.metadata = None THEN [w |-> found.w, panic |-> "", has |-> FALSE]
    ELSE IF nsn.panic # "" THEN [w |-> found.w, panic |-> nsn.panic, has |-> FALSE]
    ELSE hasPatternChosen(
             chooseFormattingPatternForNumber(
                 found.w, Deref(found.metadata).NumberFormat, nsn.nsn))
\* [w, panic, has]
hasFormattingPatternForNumber(w, number) ==
    hasFormattingPatternIn(
        getMetadataForRegionOrCallingCode(
            w, GetCountryCode(number),
            getRegionCodeForCountryCode(GetCountryCode(number))),
        getNationalSignificantNumber(number))

\* valid: what isValidNumber has returned.
containsIfValid(valid) == [w |-> valid.w, panic |-> valid.panic, contains |-> valid.valid]
\* parsed: what parse has returned.
containsIfParsed(parsed) ==
    IF parsed.st = "panic" THEN [w |-> parsed.w, panic |-> parsed.msg, contains |-> FALSE]
    ELSE IF parsed.st = "err" THEN [w |-> parsed.w, panic |-> "", contains |-> FALSE]
    ELSE containsIfValid(isValidNumber(parsed.w, parsed.num))
containsPrefixIn(w, normalizedNationalNumber, nationalPrefix, regionCode) ==
    IF HasPrefix(normalizedNationalNumber, nationalPrefix)
    THEN containsIfParsed(parse(w, From(normalizedNationalNumber, Len(nationalPrefix)),
                                regionCode))
    ELSE [w |-> w, panic |-> "", contains |-> FALSE]
\* [w, panic, contains]
rawInputContainsNationalPrefix(w, rawInput, nationalPrefix, regionCode) ==
    containsPrefixIn(w, normalizeDigitsOnly(rawInput), nationalPrefix, regionCode)

\* out with s before it.
Prefixed(s, formatted) == [formatted EXCEPT !.out = IF formatted.panic = "" THEN s \o @ ELSE @]

\* formatted: what formatNsn has returned.
outOfCountryPrefixed(number, countryCallingCode, internationalPrefixForFormatting, metadataForRegion, formatted) ==
    Formatted(
        formatted.w,
        IF Len(internationalPrefixForFormatting) > 0
        THEN internationalPrefixForFormatting \o << 32 >>
               \o BigEndian(ItoaDigits(countryCallingCode), 4) \o << 32 >>
               \o maybeAppendFormattedExtension(number, metadataForRegion,
                                                "INTERNATIONAL", formatted.out)
        ELSE prefixNumberWithCountryCallingCode(
                 countryCallingCode, "INTERNATIONAL",
                 maybeAppendFormattedExtension(number, metadataForRegion,
                                               "INTERNATIONAL", formatted.out)))

\* found: what getMetadataForRegionOrCallingCode has returned.
outOfCountryIn(number, nsn, internationalPrefixForFormatting, found) ==
    outOfCountryPrefixed(
        number, GetCountryCode(number), internationalPrefixForFormatting,
        found.metadata,
        formatNsn(found.w, nsn, found.metadata, "INTERNATIONAL"))

outOfCountryFrom(w, number, nsn, prefixes) ==
    outOfCountryIn(
        number, nsn,
        IF MatchString(UNIQUE_INTERNATIONAL_PREFIX, prefixes.InternationalPrefix)
        THEN prefixes.InternationalPrefix
        ELSE prefixes.PreferredInternationalPrefix,
        getMetadataForRegionOrCallingCode(
            w, GetCountryCode(number),
            getRegionCodeForCountryCode(GetCountryCode(number))))

\* What formatOutOfCountryCallingNumber does with the number: "format" it as
\* INTERNATIONAL or NATIONAL, the latter after the calling code of NANPA or
\* not, return the national significant "number", or put a "prefix" before
\* it.
outOfCountryCase(number, regionCallingFrom, nsn) ==
    IF ~isValidRegionCode(regionCallingFrom)
    THEN [do |-> "format", as |-> "INTERNATIONAL", after |-> << >>]
    ELSE IF nsn.panic # "" THEN [do |-> "panic", as |-> "", after |-> << >>]
    ELSE IF ~hasValidCountryCallingCode(GetCountryCode(number))
         THEN [do |-> "number", as |-> "", after |-> << >>]
    ELSE IF GetCountryCode(number) = NANPA_COUNTRY_CODE /\ isNANPACountry(regionCallingFrom)
         THEN [do |-> "format", as |-> "NATIONAL",
               after |-> Itoa(GetCountryCode(number)) \o << 32 >>]
    ELSE [do |-> "prefix", as |-> "", after |-> << >>]

outOfCountrySameCode(w, number, regionCallingFrom, case) ==
    IF /\ case.do = "prefix"
       /\ GetCountryCode(number) # NANPA_COUNTRY_CODE
       /\ GetCountryCode(number) = GetCountryCodeForValidRegion(w, regionCallingFrom)
    THEN [do |-> "format", as |-> "NATIONAL", after |-> << >>]
    ELSE case

outOfCountryDo(w, number, regionCallingFrom, nsn, case) ==
    IF case.do = "format" THEN Prefixed(case.after, format(w, number, case.as))
    ELSE IF case.do = "panic" THEN FormatPanicked(w, nsn.panic)
    ELSE IF case.do = "number" THEN Formatted(w, nsn.nsn)
    ELSE outOfCountryFrom(w, number, nsn.nsn,
                          DerefPrefixes(getMetadataForRegion(w, regionCallingFrom)))

outOfCountryNsn(w, number, regionCallingFrom, nsn) ==
    outOfCountryDo(
        w, number, regionCallingFrom, nsn,
        outOfCountrySameCode(w, number, regionCallingFrom,
                             outOfCountryCase(number, regionCallingFrom, nsn)))

formatOutOfCountryCallingNumber(w, number, regionCallingFrom) ==
    outOfCountryNsn(w, number, regionCallingFrom, getNationalSignificantNumber(number))

\* The end of formatInOriginalFormat: the formatted number is given up for
\* the raw input when their diallable characters differ.
originalChecked(number, formatted) ==
    IF formatted.panic # "" THEN formatted
    ELSE IF /\ Len(formatted.out) # 0 /\ Len(GetRawInput(number)) > 0
            /\ normalizeDiallableCharsOnly(formatted.out)
                  # normalizeDiallableCharsOnly(GetRawInput(number))
         THEN [formatted EXCEPT !.out = GetRawInput(number)]
    ELSE formatted

\* format(number, INTERNATIONAL)[1:]
withoutFirstByte(formatted) ==
    IF formatted.panic # "" THEN formatted
    ELSE IF Len(formatted.out) < 1
         THEN FormatPanicked(formatted.w, "slice bounds out of range [1:0]")
    ELSE [formatted EXCEPT !.out = Tail(@)]

\* The national prefix formatting rule of the chosen format, up to its $1,
\* has digits: the rule is to be dropped from a copy of the format, and the
\* copy is merged into the nil numFormatCopy.
originalWithoutPrefixRule(w, nationalFormat, formatRule, indexOfFirstGroup) ==
    IF indexOfFirstGroup <= 0 THEN Formatted(w, nationalFormat)
    ELSE IF Len(normalizeDigitsOnly(Slice(formatRule.NationalPrefixFormattingRule, 0,
                                          indexOfFirstGroup))) = 0
         THEN Formatted(w, nationalFormat)
    ELSE FormatPanicked(w, protoMerge(None, formatRule).panic)

\* choice: what chooseFormattingPatternForNumber has returned.
originalChosen(nationalFormat, choice) ==
    IF choice.chosen = None THEN Formatted(choice.w, nationalFormat)
    ELSE originalWithoutPrefixRule(
             choice.w, nationalFormat, Val(choice.chosen),
             Index(Val(choice.chosen).NationalPrefixFormattingRule, << 36, 49 >>))

\* contains: what rawInputContainsNationalPrefix has returned.
originalAfterPrefixTest(regionCode, nationalFormat, nsn, contains) ==
    IF contains.panic # "" THEN FormatPanicked(contains.w, contains.panic)
    ELSE IF nsn.panic # "" THEN FormatPanicked(contains.w, nsn.panic)
    ELSE originalChosen(
             nationalFormat,
             chooseFormattingPatternForNumber(
                 contains.w,
                 Deref(getMetadataForRegion(contains.w, regionCode)).NumberFormat,
                 nsn.nsn))

\* national: what format(number, NATIONAL) has returned.
originalNational(number, regionCode, nationalPrefix, national) ==
    IF national.panic # "" THEN national
    ELSE IF Len(nationalPrefix) = 0 THEN national
    ELSE originalAfterPrefixTest(
             regionCode, national.out, getNationalSignificantNumber(number),
             rawInputContainsNationalPrefix(national.w, GetRawInput(number),
                                            nationalPrefix, regionCode))

\* first: what format(number, INTERNATIONAL) has returned when the country
\* code source is one of the two that ask for it, and else what
\* format(number, NATIONAL) has.
originalFormatted(w, number, regionCallingFrom, first) ==
    CASE GetCountryCodeSource(number) = "FROM_NUMBER_WITH_PLUS_SIGN" -> first
      [] GetCountryCodeSource(number) = "FROM_NUMBER_WITH_IDD" ->
           formatOutOfCountryCallingNumber(w, number, regionCallingFrom)
      [] GetCountryCodeSource(number) = "FROM_NUMBER_WITHOUT_PLUS_SIGN" ->
           withoutFirstByte(first)
      [] OTHER ->
           originalNational(
               number, getRegionCodeForCountryCode(GetCountryCode(number)),
               getNddPrefixForRegion(
                   w, getRegionCodeForCountryCode(GetCountryCode(number)), TRUE),
               first)

originalOf(w, number, regionCallingFrom, first) ==
    IF GetCountryCodeSource(number) = CountryCodeSourceZero THEN first
    ELSE originalChecked(number,
                         originalFormatted(w, number, regionCallingFrom, first))

originalBySource(w, number, regionCallingFrom) ==
    originalOf(
        w, number, regionCallingFrom,
        format(w, number,
               IF GetCountryCodeSource(number)
                     \in { "FROM_NUMBER_WITH_PLUS_SIGN", "FROM_NUMBER_WITHOUT_PLUS_SIGN" }
               THEN "INTERNATIONAL" ELSE "NATIONAL"))

\* [w, panic, stop]: whether the raw input is returned at once.
Go(w) == [w |-> w, panic |-> "", stop |-> FALSE]
\* has: what hasFormattingPatternForNumber has returned.
stopIfNoPattern(has) == [w |-> has.w, panic |-> has.panic, stop |-> ~has.has]
\* unexpected: what hasUnexpectedItalianLeadingZero has returned.
stopIfUnexpected(number, unexpected) ==
    IF unexpected.unexpected THEN [w |-> unexpected.w, panic |-> "", stop |-> TRUE]
    ELSE stopIfNoPattern(hasFormattingPatternForNumber(unexpected.w, number))

originalUnlessStopped(number, regionCallingFrom, guard) ==
    IF guard.panic # "" THEN FormatPanicked(guard.w, guard.panic)
    ELSE IF guard.stop THEN Formatted(guard.w, GetRawInput(number))
    ELSE originalBySource(guard.w, number, regionCallingFrom)

formatInOriginalFormat(w, number, regionCallingFrom) ==
    originalUnlessStopped(
        number, regionCallingFrom,
        IF Len(GetRawInput(number)) = 0
        THEN stopIfUnexpected(number, hasUnexpectedItalianLeadingZero(w, number))
        ELSE Go(w))

(***************************************************************************)
(* The singleton and the registry it fills.                                *)
(***************************************************************************)
Codes == DOMAIN CountryCodeToRegion
\* The region codes a calling-code-to-regions map lists under codes.
RegionsIn(countryCallingCodeToRegionCodeMap, codes) ==
    UNION { { countryCallingCodeToRegionCodeMap[k][j] :
                 j \in 1..Len(countryCallingCodeToRegionCodeMap[k]) } :
            k \in codes }
RegionsOf(codes) == RegionsIn(CountryCodeToRegion, codes)
\* len(regionCodes) == 1 && REGION_CODE_FOR_NON_GEO_ENTITY == regionCodes[0]
NonGeoCodesIn(countryCallingCodeToRegionCodeMap) ==
    { k \in DOMAIN countryCallingCodeToRegionCodeMap :
         /\ Len(countryCallingCodeToRegionCodeMap[k]) = 1
         /\ REGION_CODE_FOR_NON_GEO_ENTITY = countryCallingCodeToRegionCodeMap[k][1] }
NonGeoCodes == NonGeoCodesIn(CountryCodeToRegion)

\* NewPhoneNumberUtil(filePrefix, metadataLoader,
\* countryCallingCodeToRegionCodeMap): the three package-level sets it adds
\* to, afterwards.  A nil map is the empty map: the loops run no iteration.
NewPhoneNumberUtil(sets, countryCallingCodeToRegionCodeMap) ==
    [countryCodesForNonGeographicalRegion |->
        sets.countryCodesForNonGeographicalRegion
           \cup NonGeoCodesIn(countryCallingCodeToRegionCodeMap),
     supportedRegions |->
        sets.supportedRegions
           \cup RegionsIn(countryCallingCodeToRegionCodeMap,
                          DOMAIN countryCallingCodeToRegionCodeMap
                             \ NonGeoCodesIn(countryCallingCodeToRegionCodeMap)),
     nanpaRegions |->
        sets.nanpaRegions
           \cup RegionsIn(countryCallingCodeToRegionCodeMap,
                          DOMAIN countryCallingCodeToRegionCodeMap)]

\* The package-level sets as they are now.
CurrentSets ==
    [countryCodesForNonGeographicalRegion |-> countryCodesForNonGeographicalRegion,
     supportedRegions |-> supportedRegions,
     nanpaRegions |-> nanpaRegions]

\* createInstance(metadataLoader): NewPhoneNumberUtil(META_DATA_FILE_PREFIX,
\* metadataLoader, CountryCodeToRegion)
createInstance(sets) == NewPhoneNumberUtil(sets, CountryCodeToRegion)

NoSets ==
    [countryCodesForNonGeographicalRegion |-> {}, supportedRegions |-> {},
     nanpaRegions |-> {}]

\* The mutable globals as the value w the calls thread.
World ==
    [regexCache |-> regexCache, regionToMetadataMap |-> regionToMetadataMap,
     countryCodeToNonGeographicalMetadataMap |->
        countryCodeToNonGeographicalMetadataMap,
     loads |-> loads]

\* The package variables as their declarations initialize them.
Declared ==
    /\ instance = None
    /\ created = 0
    /\ supportedRegions = {}
    /\ nanpaRegions = {}
    /\ countryCodesForNonGeographicalRegion = {}
    /\ regionToMetadataMap = EmptyMap
    /\ countryCodeToNonGeographicalMetadataMap = EmptyMap
    /\ loads = 0
    /\ regexCache = EmptyMap

\* The package variables once init() has run.
Initialized ==
    /\ instance = Some(1)
    /\ created = 1
    /\ supportedRegions = createInstance(NoSets).supportedRegions
    /\ nanpaRegions = createInstance(NoSets).nanpaRegions
    /\ countryCodesForNonGeographicalRegion =
          createInstance(NoSets).countryCodesForNonGeographicalRegion
    /\ regionToMetadataMap =
          loadMetadataFromFile([regexCache |-> EmptyMap,
                                regionToMetadataMap |-> EmptyMap,
                                countryCodeToNonGeographicalMetadataMap |-> EmptyMap,
                                loads |-> 0]).regionToMetadataMap
    /\ countryCodeToNonGeographicalMetadataMap = EmptyMap
    /\ loads = 1
    /\ regexCache = EmptyMap

(***************************************************************************)
(* Specification Spec: one caller, after init(), making API calls one      *)
(* after the other: it parses a string or builds a PhoneNumber, and then   *)
(* formats it (and parses the result again), formats it for mobile         *)
(* dialing, or builds a second PhoneNumber and matches the two.  A call    *)
(* that panics is recovered by the caller, who keeps the message.          *)
(***************************************************************************)
Regions == { "US", "CH", "ZZ" }
Formats == { "E164", "INTERNATIONAL", "NATIONAL", "RFC3966" }
\* n times U+FF12 (fullwidth digit two), in UTF-8: EF BC 92
FullwidthDigits(n) ==
    [k \in 1..(3 * n) |-> IF k % 3 = 1 THEN 239 ELSE IF k % 3 = 2 THEN 188 ELSE 146]
ParseInputs ==
    {
      << 43, 52, 49, 52, 52, 54, 54, 56, 49, 56, 48, 48 >>,   \* "+41446681800"
      << 43, 52, 49, 32, 52, 52, 32, 54, 54, 56, 32, 49, 56, 48, 48 >>,   \* "+41 44 668 1800"
      << 48, 52, 52, 32, 54, 54, 56, 32, 49, 56, 32, 48, 48 >>,   \* "044 668 18 00"
      << 43, 51, 57, 48, 50, 51, 54, 54, 49, 56, 51, 48, 48 >>,   \* "+390236618300"
      << 54, 53, 48, 50, 53, 51, 48, 48, 48, 48 >>,   \* "6502530000"
      << 54, 53, 48, 32, 50, 53, 51, 32, 48, 48, 48, 48, 32, 101, 120, 116, 46, 32, 49, 50 >>,   \* "650 253 0000 ext. 12"
      << 48, 49, 49, 32, 52, 49, 32, 52, 52, 32, 54, 54, 56, 32, 49, 56, 48, 48 >>,   \* "011 41 44 668 1800"
      << 49, 45, 56, 48, 48, 45, 70, 76, 79, 87, 69, 82, 83 >>,   \* "1-800-FLOWERS"
      << 43, 56, 48, 48, 49, 50, 51, 52, 53, 54, 55, 56 >>,   \* "+80012345678"
      << 43, 48, 49, 50, 51, 52, 53, 54 >>,   \* "+0123456"
      << 43, 49, 50 >>,   \* "+12"
      << 43, 57, 57, 57, 49, 50, 51, 52, 53, 54 >>,   \* "+999123456"
      << 97, 98, 99 >>,   \* "abc"
      << >>,   \* ""
      RepeatByte(49, MAX_INPUT_STRING_LENGTH + 1),            \* 251 times "1"
      FullwidthDigits(MAX_INPUT_STRING_LENGTH) }              \* 250 fullwidth digits

Number(cc, nn) ==
    [NewPhoneNumber EXCEPT !.CountryCode = Some(cc), !.NationalNumber = Some(nn)]
Numbers ==
    { Number(41, << 4, 4, 6, 6, 8, 1, 8, 0, 0 >>),
      Number(1, << 6, 5, 0, 2, 5, 3, 0, 0, 0, 0 >>),
      [Number(1, << 6, 5, 0, 2, 5, 3, 0, 0, 0, 0 >>)
         EXCEPT !.Extension = Some(<< 49, 50 >>)],
      [Number(39, << 2, 3, 6, 6, 1, 8, 3, 0, 0 >>)
         EXCEPT !.ItalianLeadingZero = Some(TRUE)],
      Number(800, << 1, 2, 3, 4, 5, 6, 7, 8 >>),
      [NewPhoneNumber EXCEPT !.NationalNumber = Some(<< 2, 5, 3, 0, 0, 0, 0 >>)],
      [Number(0, << 1, 2, 3 >>)
         EXCEPT !.RawInput = Some(<< 97, 98, 99, 45, 49, 50, 51 >>)],  \* raw input "abc-123"
      [Number(2, << 1, 2, 3, 4, 5 >>)
         EXCEPT !.RawInput = Some(<< 43, 50, 32, 49, 50, 51, 52, 53 >>)] }  \* raw input "+2 12345"

NoCall == [st |-> "none", msg |-> "", num |-> NewPhoneNumber, origin |-> "",
           input |-> << >>, region |-> ""]
NoText == [op |-> "none", fmt |-> "", region |-> "", formatting |-> FALSE,
           panic |-> "", out |-> << >>]
NoVerdict == [op |-> "none", panic |-> "", match |-> "", back |-> "none",
              backPanic |-> "", backMatch |-> ""]

Init ==
    /\ Initialized
    /\ pc = [p \in {"main"} |-> "idle"]
    /\ local = [p \in {"main"} |-> [calls |-> 0]]
    /\ fatal = ""
    /\ numA = NoCall
    /\ numB = NoCall
    /\ text = NoText
    /\ verdict = NoVerdict

\* The globals after a call that left them as w.
Globals(w) ==
    /\ regexCache' = w.regexCache
    /\ regionToMetadataMap' = w.regionToMetadataMap
    /\ countryCodeToNonGeographicalMetadataMap' =
          w.countryCodeToNonGeographicalMetadataMap
    /\ loads' = w.loads
    /\ UNCHANGED << instance, created, supportedRegions, nanpaRegions,
                    countryCodesForNonGeographicalRegion, fatal >>

Called(to) ==
    /\ pc' = [pc EXCEPT !["main"] = to]
    /\ local' = [local EXCEPT !["main"].calls = @ + 1]

Parsed(r, input, region) ==
    [st |-> r.st, msg |-> r.msg, num |-> r.num, origin |-> "parse",
     input |-> input, region |-> region]

\* num, err := parse(numberToParse, defaultRegion)
Parse(numberToParse, defaultRegion) ==
    /\ pc["main"] = "idle"
    /\ \E r \in { parse(World, numberToParse, defaultRegion) } :
           /\ numA' = Parsed(r, numberToParse, defaultRegion)
           /\ Globals(r.w)
    /\ Called("number")
    /\ UNCHANGED << numB, text, verdict >>

\* num := &PhoneNumber{...}
Build(n) ==
    /\ pc["main"] = "idle"
    /\ numA' = [NoCall EXCEPT !.st = "ok", !.num = n, !.origin = "build"]
    /\ Called("number")
    /\ UNCHANGED << instance, created, supportedRegions, nanpaRegions,
                    countryCodesForNonGeographicalRegion, regionToMetadataMap,
                    countryCodeToNonGeographicalMetadataMap, loads, regexCache,
                    fatal, numB, text, verdict >>

\* s := format(num, numberFormat)
Format(numberFormat) ==
    /\ pc["main"] = "number"
    /\ numA.st = "ok"
    /\ \E r \in { format(World, numA.num, numberFormat) } :
           /\ text' = [NoText EXCEPT !.op = "format", !.fmt = numberFormat,
                                     !.panic = r.panic, !.out = r.out]
           /\ Globals(r.w)
    /\ Called("formatted")
    /\ UNCHANGED << numA, numB, verdict >>

\* again, err := parse(s, "ZZ")
Reparse ==
    /\ pc["main"] = "formatted"
    /\ text.op = "format" /\ text.fmt = "E164" /\ text.panic = ""
    /\ \E r \in { parse(World, text.out, UNKNOWN_REGION) } :
           /\ numB' = Parsed(r, text.out, UNKNOWN_REGION)
           /\ Globals(r.w)
    /\ Called("done")
    /\ UNCHANGED << numA, text, verdict >>

\* s := formatNumberForMobileDialing(num, regionCallingFrom, withFormatting)
MobileDial(regionCallingFrom, withFormatting) ==
    /\ pc["main"] = "number"
    /\ numA.st = "ok"
    /\ \E r \in { formatNumberForMobileDialing(World, numA.num, regionCallingFrom,
                                              withFormatting) } :
           /\ text' = [NoText EXCEPT !.op = "mobile", !.region = regionCallingFrom,
                                     !.formatting = withFormatting,
                                     !.panic = r.panic, !.out = r.out]
           /\ Globals(r.w)
    /\ Called("done")
    /\ UNCHANGED << numA, numB, verdict >>

\* other := &PhoneNumber{...}
BuildSecond(n) ==
    /\ pc["main"] = "number"
    /\ numA.st = "ok"
    /\ numB' = [NoCall EXCEPT !.st = "ok", !.num = n, !.origin = "build"]
    /\ Called("pair")
    /\ UNCHANGED << instance, created, supportedRegions, nanpaRegions,
                    countryCodesForNonGeographicalRegion, regionToMetadataMap,
                    countryCodeToNonGeographicalMetadataMap, loads, regexCache,
                    fatal, numA, text, verdict >>

\* m := isNumberMatchWithNumbers(num, other)
Match ==
    /\ pc["main"] = "pair"
    /\ \E r \in { isNumberMatchWithNumbers(numA.num, numB.num) } :
           verdict' = [NoVerdict EXCEPT !.op = "match", !.panic = r.panic,
                                        !.match = r.match]
    /\ Called("matched")
    /\ UNCHANGED << instance, created, supportedRegions, nanpaRegions,
                    countryCodesForNonGeographicalRegion, regionToMetadataMap,
                    countryCodeToNonGeographicalMetadataMap, loads, regexCache,
                    fatal, numA, numB, text >>

\* back := isNumberMatchWithNumbers(other, num)
MatchBack ==
    /\ pc["main"] = "matched"
    /\ \E r \in { isNumberMatchWithNumbers(numB.num, numA.num) } :
           verdict' = [verdict EXCEPT !.back = "match", !.backPanic = r.panic,
                                      !.backMatch = r.match]
    /\ Called("done")
    /\ UNCHANGED << instance, created, supportedRegions, nanpaRegions,
                    countryCodesForNonGeographicalRegion, regionToMetadataMap,
                    countryCodeToNonGeographicalMetadataMap, loads, regexCache,
                    fatal, numA, numB, text >>

Next ==
    \/ \E numberToParse \in ParseInputs, defaultRegion \in Regions :
          Parse(numberToParse, defaultRegion)
    \/ \E n \in Numbers : Build(n)
    \/ \E numberFormat \in Formats : Format(numberFormat)
    \/ Reparse
    \/ \E regionCallingFrom \in Regions, withFormatting \in BOOLEAN :
          MobileDial(regionCallingFrom, withFormatting)
    \/ \E n \in Numbers : BuildSecond(n)
    \/ Match
    \/ MatchBack

Spec == Init /\ [][Next]_vars

(***************************************************************************)
(* Properties of the sequential caller, specification Spec.                *)
(***************************************************************************)
\* The four fields a round trip has to keep.
SameNumber(a, b) ==
    /\ GetCountryCode(a) = GetCountryCode(b)
    /\ GetNationalNumber(a) = GetNationalNumber(b)
    /\ GetItalianLeadingZero(a) = GetItalianLeadingZero(b)
    /\ GetNumberOfLeadingZeros(a) = GetNumberOfLeadingZeros(b)

\* C1: round trip.  When parse(S, R) has succeeded, format(., E164) returns,
\* and parsing what it returned with default region "ZZ" succeeds and yields
\* the same country_code, national_number, italian_leading_zero and
\* number_of_leading_zeros.
RoundTripE164 ==
    (numA.origin = "parse" /\ numA.st = "ok" /\ text.op = "format" /\ text.fmt = "E164")
       => /\ text.panic = ""
          /\ numB.origin = "parse"
                => (numB.st = "ok" /\ SameNumber(numA.num, numB.num))

\* The registry: the two metadata maps and the two region sets.
Registry ==
    << regionToMetadataMap, countryCodeToNonGeographicalMetadataMap,
       supportedRegions, nanpaRegions >>

\* C4: the registry is read-only after initialization.  No call of the
\* caller adds, removes or replaces an entry of the region-to-metadata map,
\* the non-geographical map, the supported regions or the NANPA regions.
RegistryReadOnly == [][Registry' = Registry]_vars

\* The decimal digits of s that follow its leading plus sign.
DigitsAfterPlus(s) == SelectSeq(Tail(s), IsAsciiDigit)
LeadingPlus(s) == Len(s) > 0 /\ s[1] = PLUS_SIGN
StartsWithKnownCode(digits) ==
    \E c \in DOMAIN CountryCodeToRegion : HasPrefix(digits, Itoa(c))

\* C5: every parse failure is an error value.  No parse panics; an input
\* with a leading plus whose digits start with no known country calling code
\* gets the invalid-country-code error, and one with fewer than three digits
\* after the plus gets an error as well.
ParseFailuresAreErrors ==
    /\ numA.st # "panic"
    /\ numB.st # "panic"
    /\ (numA.origin = "parse" /\ LeadingPlus(numA.input))
          => /\ Len(DigitsAfterPlus(numA.input)) < 3 => numA.st = "err"
             /\ (Len(DigitsAfterPlus(numA.input)) >= 3
                   /\ ~StartsWithKnownCode(DigitsAfterPlus(numA.input)))
                   => (numA.st = "err" /\ numA.msg = ErrInvalidCountryCode)

\* C6: the bound on the length of the input.  The empty input gets the
\* empty-input error, an input of more than 250 characters the
\* input-too-long error, and an input of exactly 250 characters is not
\* rejected for its length.
InputLengthBound ==
    numA.origin = "parse"
       => /\ numA.input = << >> => (numA.st = "err" /\ numA.msg = ErrEmpty)
          /\ RuneCount(numA.input) > MAX_INPUT_STRING_LENGTH
                => (numA.st = "err" /\ numA.msg = ErrTooLongInput)
          /\ RuneCount(numA.input) = MAX_INPUT_STRING_LENGTH
                => ~(numA.st = "err" /\ numA.msg = ErrTooLongInput)

\* C7: the formatter never throws.  format and formatNumberForMobileDialing
\* return a string for every number and every target.
FormatterNeverThrows == text.op # "none" => text.panic = ""

\* The national significant number as the specification composes it: "0"
\* number_of_leading_zeros times when italian_leading_zero is set, then the
\* national number in decimal.
NsnDigits(number) ==
    (IF GetItalianLeadingZero(number)
     THEN RepeatByte(48, GetNumberOfLeadingZeros(number)) ELSE << >>)
    \o FormatUint(GetNationalNumber(number))

\* C8: format(N, E164) is a plus sign, the country code in decimal and the
\* digits of the national significant number, and so has
\* 1 + digits(country_code) + len(NSN) characters.
E164Length ==
    (text.op = "format" /\ text.fmt = "E164")
       => /\ text.panic = ""
          /\ RuneCount(text.out)
                = 1 + Len(Itoa(GetCountryCode(numA.num))) + Len(NsnDigits(numA.num))
          /\ text.out = << PLUS_SIGN >> \o Itoa(GetCountryCode(numA.num))
                          \o NsnDigits(numA.num)

DiallableChars == (48..57) \cup { PLUS_SIGN, STAR_SIGN }

\* C9: formatNumberForMobileDialing(N, region, false) returns a string of
\* dialable characters only (digits, '+' and '*'), on every branch.
MobileDialingDiallable ==
    (text.op = "mobile" /\ ~text.formatting)
       => /\ text.panic = ""
          /\ \A k \in 1..Len(text.out) : text.out[k] \in DiallableChars

\* C10: matching is symmetric.  isNumberMatchWithNumbers(A, B) and
\* isNumberMatchWithNumbers(B, A) return the same verdict.
MatchSymmetric ==
    (verdict.op = "match" /\ verdict.back = "match")
       => /\ verdict.panic = "" /\ verdict.backPanic = ""
          /\ verdict.match = verdict.backMatch

(***************************************************************************)
(* Specification SpecInit: the singleton.  The package variables start as  *)
(* declared; the goroutine "main" runs init() (getInstance(), then         *)
(* loadMetadataFromFile) and after it the program, in which main and the   *)
(* goroutines it has started call getInstance().  getInstance is taken     *)
(* step by step, one access to the variable instance per step.             *)
(***************************************************************************)
MaxCalls == 2                       \* getInstance() calls of one goroutine
Goroutines == { "main", "g1", "g2" }

InitDone == ~local["main"].inInit

\* A goroutine other than the one that runs init() exists only once main.main
\* has started, which is after every init() has returned; main itself goes on
\* after its init() as well.
CanStartAnytime(p) == TRUE
CanStart(p) == InitDone

InInit ==
    /\ Declared
    /\ pc = [p \in Goroutines |-> IF p = "main" THEN "check" ELSE "idle"]
    /\ local = [p \in Goroutines |->
                  [inInit |-> p = "main", calls |-> 0, util |-> None, got |-> None]]
    /\ fatal = ""
    /\ numA = NoCall
    /\ numB = NoCall
    /\ text = NoText
    /\ verdict = NoVerdict

\* What no step of SpecInit writes.
idleVars ==
    << countryCodeToNonGeographicalMetadataMap, regexCache, fatal, numA, numB,
       text, verdict >>
setVars == << supportedRegions, nanpaRegions, countryCodesForNonGeographicalRegion >>

\* getInstance() is called.
CallGetInstance(p) ==
    /\ pc[p] = "idle"
    /\ CanStart(p)
    /\ local[p].calls < MaxCalls
    /\ pc' = [pc EXCEPT ![p] = "check"]
    /\ local' = [local EXCEPT ![p].got = None]
    /\ UNCHANGED << instance, created, setVars, regionToMetadataMap, loads, idleVars >>

\* if instance == nil
GetInstanceCheck(p) ==
    /\ pc[p] = "check"
    /\ pc' = [pc EXCEPT ![p] = IF instance = None THEN "create" ELSE "return"]
    /\ UNCHANGED << instance, created, local, setVars, regionToMetadataMap, loads,
                    idleVars >>

\* createInstance(DEFAULT_METADATA_LOADER): a new PhoneNumberUtil, and the
\* region sets filled from CountryCodeToRegion.
CreateInstance(p) ==
    /\ pc[p] = "create"
    /\ created' = created + 1
    /\ local' = [local EXCEPT ![p].util = Some(created + 1)]
    /\ \E sets \in { createInstance(CurrentSets) } :
           /\ supportedRegions' = sets.supportedRegions
           /\ nanpaRegions' = sets.nanpaRegions
           /\ countryCodesForNonGeographicalRegion' =
                 sets.countryCodesForNonGeographicalRegion
    /\ pc' = [pc EXCEPT ![p] = "set"]
    /\ UNCHANGED << instance, regionToMetadataMap, loads, idleVars >>

\* setInstance(util): instance = util
SetInstance(p) ==
    /\ pc[p] = "set"
    /\ instance' = local[p].util
    /\ pc' = [pc EXCEPT ![p] = "return"]
    /\ UNCHANGED << created, local, setVars, regionToMetadataMap, loads, idleVars >>

\* return instance
GetInstanceReturn(p) ==
    /\ pc[p] = "return"
    /\ local' = [local EXCEPT ![p].got = instance, ![p].calls = @ + 1]
    /\ pc' = [pc EXCEPT ![p] = IF local[p].inInit THEN "load" ELSE "idle"]
    /\ UNCHANGED << instance, created, setVars, regionToMetadataMap, loads, idleVars >>

\* loadMetadataFromFile("", "US", 1, instance.metadataLoader), and init()
\* returns.
InitLoadMetadata ==
    /\ pc["main"] = "load"
    /\ regionToMetadataMap' = loadMetadataFromFile(World).regionToMetadataMap
    /\ loads' = loadMetadataFromFile(World).loads
    /\ local' = [local EXCEPT !["main"].inInit = FALSE]
    /\ pc' = [pc EXCEPT !["main"] = "idle"]
    /\ UNCHANGED << instance, created, setVars, idleVars >>

NextInit ==
    \/ \E p \in Goroutines : CallGetInstance(p)
    \/ \E p \in Goroutines : GetInstanceCheck(p)
    \/ \E p \in Goroutines : CreateInstance(p)
    \/ \E p \in Goroutines : SetInstance(p)
    \/ \E p \in Goroutines : GetInstanceReturn(p)
    \/ InitLoadMetadata

SpecInit == InInit /\ [][NextInit]_vars

\* C3: initialization happens once.  Over every interleaving of
\* getInstance() calls at most one PhoneNumberUtil is ever created and
\* exactly one once init() has returned, every call returns that instance,
\* and once init() has returned no call changes the instance, the region
\* sets or the metadata maps.
InitializedOnce ==
    /\ [](/\ created <= 1
          /\ InitDone => (created = 1 /\ instance = Some(1))
          /\ \A p \in Goroutines :
                (pc[p] = "idle" /\ local[p].calls > 0) => local[p].got = Some(1))
    /\ [][InitDone => UNCHANGED << instance, created, setVars, regionToMetadataMap,
                                   countryCodeToNonGeographicalMetadataMap,
                                   loads >>]_vars

\* Two goroutines are inside getInstance() at the same time, and a third has
\* already got the instance from a call of its own.
ConcurrentGetInstance ==
    /\ pc["g1"] = "return"
    /\ pc["g2"] = "check"
    /\ local["main"].calls = MaxCalls
    /\ local["main"].got = Some(1)
    /\ created = 1

(***************************************************************************)
(* Specification SpecCache: the cache of compiled regular expressions.     *)
(* After init(), goroutines call isNumberMatchingDesc, which looks up two  *)
(* patterns in regexCache, a plain map: a lookup reads the map and, on a   *)
(* miss, compiles the pattern and writes it to the map.  An access to the  *)
(* map takes time: it begins and it ends.  A read that overlaps a write of *)
(* another goroutine, and a write that overlaps another access, is a data  *)
(* race, and its outcome is any of those the Go runtime can produce.       *)
(***************************************************************************)
MaxDescCalls == 1                   \* isNumberMatchingDesc calls of one goroutine
Threads == { "g1", "g2" }
DescRegions == { "CH", "US" }
DescNumbers == { << 52, 52, 54, 54, 56, 49, 56, 48, 48 >> }     \* "446681800"

\* A *regexp.Regexp that is nil, among the matchers, which are named by the
\* pattern they were compiled from.
NilRegexp == "(*regexp.Regexp)(nil)"

NoLookup ==
    [calls |-> 0, desc |-> NoDesc, nationalNumber |-> << >>, stage |-> "",
     key |-> "", pat |-> None, patP |-> None, raced |-> FALSE, result |-> FALSE,
     panic |-> ""]

InitCache ==
    /\ Initialized
    /\ pc = [p \in Threads |-> "idle"]
    /\ local = [p \in Threads |-> NoLookup]
    /\ fatal = ""
    /\ numA = NoCall
    /\ numB = NoCall
    /\ text = NoText
    /\ verdict = NoVerdict

\* What no step of SpecCache writes.
registryVars ==
    << instance, created, supportedRegions, nanpaRegions,
       countryCodesForNonGeographicalRegion, regionToMetadataMap,
       countryCodeToNonGeographicalMetadataMap, loads, numA, numB, text, verdict >>

Others(p) == Threads \ {p}
Reading(q) == pc[q] = "reading"
Writing(q) == pc[q] = "writing"

\* The goroutine has its matcher for the pattern of this stage: the other
\* pattern is next, or the return.
GotMatcher(l, matcher) ==
    IF l.stage = "national"
    THEN [l EXCEPT !.pat = Some(matcher), !.stage = "possible",
                   !.key = l.desc.PossibleNumberPattern, !.raced = FALSE]
    ELSE [l EXCEPT !.patP = Some(matcher), !.stage = "return", !.raced = FALSE]

AfterLookup(l) == IF l.stage = "return" THEN "return" ELSE "lookup"

\* isNumberMatchingDesc(nationalNumber, numberDesc) is called.
CallIsNumberMatchingDesc(p, nationalNumber, region) ==
    /\ fatal = ""
    /\ pc[p] = "idle"
    /\ local[p].calls < MaxDescCalls
    /\ \E numberDesc \in { Deref(getMetadataForRegion(World, region)).GeneralDesc } :
           local' = [local EXCEPT ![p] =
                       [NoLookup EXCEPT !.calls = local[p].calls,
                                        !.desc = numberDesc,
                                        !.nationalNumber = nationalNumber,
                                        !.stage = "national",
                                        !.key = numberDesc.NationalNumberPattern]]
    /\ pc' = [pc EXCEPT ![p] = "lookup"]
    /\ UNCHANGED << regexCache, fatal, registryVars >>

\* pat, ok := regexCache[key] begins.
BeginRead(p) ==
    /\ fatal = ""
    /\ pc[p] = "lookup"
    /\ pc' = [pc EXCEPT ![p] = "reading"]
    /\ local' = [q \in Threads |->
                   IF q = p THEN [local[q] EXCEPT !.raced = \E o \in Others(p) : Writing(o)]
                   ELSE IF Writing(q) THEN [local[q] EXCEPT !.raced = TRUE]
                   ELSE local[q]]
    /\ UNCHANGED << regexCache, fatal, registryVars >>

\* What a read of key can come to: a matcher, or "miss".  Without a race it
\* is what the map holds; with one it is anything: a miss, the run-time's
\* fatal error, the matcher of the key or of another key, or a hit whose
\* value is nil (pat = nil, ok = true), which is what the reader sees when
\* the writer has inserted the key and has not stored the value yet.
ReadOutcomes(l) ==
    IF ~l.raced
    THEN IF l.key \in DOMAIN regexCache THEN { regexCache[l.key] } ELSE { "miss" }
    ELSE { "miss", "fatal", l.key, NilRegexp }
            \cup { regexCache[k] : k \in DOMAIN regexCache }

\* pat, ok := regexCache[key] ends.
EndRead(p) ==
    /\ fatal = ""
    /\ pc[p] = "reading"
    /\ \E outcome \in ReadOutcomes(local[p]) :
          IF outcome = "fatal"
          THEN /\ fatal' = "fatal error: concurrent map read and map write"
               /\ UNCHANGED << pc, local >>
          ELSE IF outcome = "miss"
               THEN /\ pc' = [pc EXCEPT ![p] = "compile"]
                    /\ local' = [local EXCEPT ![p].raced = FALSE]
                    /\ UNCHANGED fatal
          ELSE /\ local' = [local EXCEPT ![p] = GotMatcher(local[p], outcome)]
               /\ pc' = [pc EXCEPT ![p] = AfterLookup(GotMatcher(local[p], outcome))]
               /\ UNCHANGED fatal
    /\ UNCHANGED << regexCache, registryVars >>

\* pat = regexp.MustCompile(patP), and regexCache[patP] = pat begins.
BeginWrite(p) ==
    /\ fatal = ""
    /\ pc[p] = "compile"
    /\ pc' = [pc EXCEPT ![p] = "writing"]
    /\ local' = [q \in Threads |->
                   IF q = p
                   THEN [local[q] EXCEPT
                           !.raced = \E o \in Others(p) : Reading(o) \/ Writing(o)]
                   ELSE IF Reading(q) \/ Writing(q) THEN [local[q] EXCEPT !.raced = TRUE]
                   ELSE local[q]]
    /\ UNCHANGED << regexCache, fatal, registryVars >>

\* What a write of key can leave: the entry stored, the entry lost, or the
\* run-time's fatal error.
WriteOutcomes(l) ==
    IF ~l.raced THEN { "stored" } ELSE { "stored", "lost", "fatal" }

\* regexCache[patP] = pat ends.
EndWrite(p) ==
    /\ fatal = ""
    /\ pc[p] = "writing"
    /\ \E outcome \in WriteOutcomes(local[p]) :
          IF outcome = "fatal"
          THEN /\ fatal' = "fatal error: concurrent map writes"
               /\ UNCHANGED << pc, local, regexCache >>
          ELSE /\ regexCache' = IF outcome = "stored"
                                THEN (local[p].key :> local[p].key) @@ regexCache
                                ELSE regexCache
               /\ local' = [local EXCEPT ![p] = GotMatcher(local[p], local[p].key)]
               /\ pc' = [pc EXCEPT ![p] = AfterLookup(GotMatcher(local[p], local[p].key))]
               /\ UNCHANGED fatal
    /\ UNCHANGED registryVars

\* pat.MatchString(nationalNumber): [panic, match]; a nil pat is
\* dereferenced.
MatcherMatchString(pat, nationalNumber) ==
    IF pat = NilRegexp THEN [panic |-> NilDereference, match |-> FALSE]
    ELSE [panic |-> "", match |-> MatchString(Compile(pat), nationalNumber)]

\* isNumberPossibleForDesc(...) && pat.MatchString(nationalNumber), possible
\* being what isNumberPossibleForDesc has come to: pat.MatchString is not
\* called when it returned false.
possibleAndMatching(possible, pat, nationalNumber) ==
    IF possible.panic # "" \/ ~possible.match THEN possible
    ELSE MatcherMatchString(pat, nationalNumber)

\* return pat.MatchString(nationalNumber) of isNumberPossibleForDesc, and
\* return isNumberPossibleForDesc(...) && pat.MatchString(nationalNumber).
\* A panic leaves the call; the caller recovers it and keeps the message.
ReturnMatchingDesc(p) ==
    /\ fatal = ""
    /\ pc[p] = "return"
    /\ \E r \in { possibleAndMatching(
                    MatcherMatchString(Val(local[p].patP), local[p].nationalNumber),
                    Val(local[p].pat), local[p].nationalNumber) } :
           local' = [local EXCEPT ![p].result = r.match,
                                  ![p].panic = r.panic,
                                  ![p].calls = @ + 1,
                                  ![p].stage = "done"]
    /\ pc' = [pc EXCEPT ![p] = "idle"]
    /\ UNCHANGED << regexCache, fatal, registryVars >>

NextCache ==
    \/ \E p \in Threads, nationalNumber \in DescNumbers, region \in DescRegions :
          CallIsNumberMatchingDesc(p, nationalNumber, region)
    \/ \E p \in Threads : BeginRead(p)
    \/ \E p \in Threads : EndRead(p)
    \/ \E p \in Threads : BeginWrite(p)
    \/ \E p \in Threads : EndWrite(p)
    \/ \E p \in Threads : ReturnMatchingDesc(p)

SpecCache == InitCache /\ [][NextCache]_vars

\* C2: goroutines may use the cache concurrently without coordination.  No
\* access to regexCache overlaps a write to it by another goroutine, the
\* run-time never stops the program, no call panics, and the matcher a
\* lookup yields is the one compiled from the pattern looked up.
CacheIsSafe ==
    /\ fatal = ""
    /\ \A p \in Threads : local[p].panic = ""
    /\ \A p \in Threads : \A q \in Others(p) :
          ~(Writing(p) /\ (Reading(q) \/ Writing(q)))
    /\ \A p \in Threads :
          /\ local[p].pat # None
                => Val(local[p].pat) = local[p].desc.NationalNumberPattern
          /\ local[p].patP # None
                => Val(local[p].patP) = local[p].desc.PossibleNumberPattern

(***************************************************************************)
(* Specification SpecValidate: one caller, after init(), builds a          *)
(* PhoneNumber and asks whether it is valid, whether it is possible and    *)
(* what type it has, each question once, in any order.                     *)
(***************************************************************************)
ValidationNumbers ==
    { Number(44, << 3, 5, 4, 5, 5, 2, 0, 5, 9, 0, 5, 7, 7, 3, 4, 9, 4, 2, 8 >>),  \* 0x3134383131323334
      Number(44, << 1, 4, 8, 1, 1, 2, 3, 4, 5, 6 >>),
      Number(44, << 2, 0, 1, 2, 3, 4, 5, 6, 7, 8 >>),
      Number(41, << 4, 4, 6, 6, 8, 1, 8, 0, 0 >>),
      Number(1, << 8, 0, 0, 2, 5, 3, 0, 0, 0, 0 >>),
      Number(1, << 6, 5, 0, 2, 5, 3, 0, 0, 0, 0 >>),
      [Number(39, << 2, 3, 6, 6, 1, 8, 3, 0, 0 >>)
         EXCEPT !.ItalianLeadingZero = Some(TRUE)],
      [Number(39, << 3, 6, 1, 7, 2, 9, 4, 5, 3, 2, 0, 9, 0, 5, 4, 0, 8, 4, 8 >>)  \* 0x3233363631383330
         EXCEPT !.ItalianLeadingZero = Some(TRUE)],
      Number(39, << 3, 6, 8, 8, 7, 8, 4, 7, 6, 5, 2, 9, 3, 7, 7, 0, 2, 9, 5 >>),  \* 0x3331323334353637
      Number(39, << 3, 6, 8, 8, 5, 0, 2, 1, 8, 6, 4, 9, 3, 6, 2, 1, 5, 5, 8 >>),  \* 0x3330313233343536
      Number(800, << 1, 2, 3, 4, 5, 6, 7, 8 >>),
      Number(800, << 3, 5, 4, 4, 9, 5, 2, 1, 5, 6, 0, 1, 8, 0, 6, 3, 1, 6, 0 >>),  \* 0x3132333435363738
      Number(999, << 1, 2, 3, 4, 5 >>),
      [NewPhoneNumber EXCEPT !.NationalNumber = Some(<< 2, 5, 3, 0, 0, 0, 0 >>)],
      [Number(39, << 2, 3, 6, 6, 1, 8, 3, 0, 0 >>)
         EXCEPT !.ItalianLeadingZero = Some(TRUE), !.NumberOfLeadingZeros = Some(-1)] }

\* What the caller has been answered: None until the question is asked.
NoAnswers == [op |-> "validate", panic |-> "", valid |-> None, possible |-> None,
              type |-> None]

InitValidate ==
    /\ Initialized
    /\ pc = [p \in {"main"} |-> "idle"]
    /\ local = [p \in {"main"} |-> [calls |-> 0]]
    /\ fatal = ""
    /\ numA = NoCall
    /\ numB = NoCall
    /\ text = NoText
    /\ verdict = NoAnswers

\* ok := isValidNumber(num)
CallIsValidNumber ==
    /\ pc["main"] = "number"
    /\ verdict.valid = None /\ verdict.panic = ""
    /\ \E r \in { isValidNumber(World, numA.num) } :
           /\ verdict' = [verdict EXCEPT !.valid = Some(r.valid), !.panic = r.panic]
           /\ Globals(r.w)
    /\ Called("number")
    /\ UNCHANGED << numA, numB, text >>

\* ok := isPossibleNumber(num)
CallIsPossibleNumber ==
    /\ pc["main"] = "number"
    /\ verdict.possible = None /\ verdict.panic = ""
    /\ \E r \in { isPossibleNumber(World, numA.num) } :
           /\ verdict' = [verdict EXCEPT !.possible = Some(r.possible),
                                         !.panic = r.panic]
           /\ Globals(r.w)
    /\ Called("number")
    /\ UNCHANGED << numA, numB, text >>

\* t := getNumberType(num)
CallGetNumberType ==
    /\ pc["main"] = "number"
    /\ verdict.type = None /\ verdict.panic = ""
    /\ \E r \in { getNumberType(World, numA.num) } :
           /\ verdict' = [verdict EXCEPT !.type = Some(r.type), !.panic = r.panic]
           /\ Globals(r.w)
    /\ Called("number")
    /\ UNCHANGED << numA, numB, text >>

NextValidate ==
    \/ \E n \in ValidationNumbers : Build(n)
    \/ CallIsValidNumber
    \/ CallIsPossibleNumber
    \/ CallGetNumberType

SpecValidate == InitValidate /\ [][NextValidate]_vars

\* C11: a number that isValidNumber accepts is a number that
\* isPossibleNumber accepts, whatever region of its calling code it belongs
\* to.
ValidImpliesPossible ==
    (verdict.op = "validate" /\ verdict.valid = Some(TRUE) /\ verdict.possible # None)
       => verdict.possible = Some(TRUE)

\* A national significant number matches a descriptor when it matches the
\* whole of its possible-number pattern and of its national-number pattern.
DescMatches(desc, nsn) ==
    /\ FullMatch(Compile(desc.PossibleNumberPattern), nsn)
    /\ FullMatch(Compile(desc.NationalNumberPattern), nsn)

\* The first of the descriptors tested in order that matches, 0 when none does.
FirstKindMatching(kinds, nsn) ==
    IF \E i \in 1..Len(KindsInOrder) : DescMatches(kinds[KindsInOrder[i]], nsn)
    THEN CHOOSE i \in 1..Len(KindsInOrder) :
            /\ DescMatches(kinds[KindsInOrder[i]], nsn)
            /\ \A j \in 1..(i - 1) : ~DescMatches(kinds[KindsInOrder[j]], nsn)
    ELSE 0

\* The type by the decision order, for the metadata of a region.
TypeByOrder(general, kinds, nsn) ==
    IF ~DescMatches(general, nsn) THEN "UNKNOWN"
    ELSE IF FirstKindMatching(kinds, nsn) > 0
         THEN TypesInOrder[FirstKindMatching(kinds, nsn)]
    ELSE IF DescMatches(kinds.FixedLine, nsn)
         THEN IF kinds.SameMobileAndFixedLinePattern \/ DescMatches(kinds.Mobile, nsn)
              THEN "FIXED_LINE_OR_MOBILE" ELSE "FIXED_LINE"
    ELSE IF DescMatches(kinds.Mobile, nsn) /\ ~kinds.SameMobileAndFixedLinePattern
         THEN "MOBILE"
    ELSE "UNKNOWN"
TypeInRegion(id, nsn) ==
    TypeByOrder(Deref(Some([id |-> id, gen |-> 1])).GeneralDesc, KindsOf(id), nsn)

\* The regions of a calling code a national significant number can be of:
\* the only region, or those whose leading digits it starts with or, when
\* they have none, where it has a type.
IsOfRegion(id, nsn) ==
    IF KindsOf(id).LeadingDigits # ""
    THEN Ends(Compile(KindsOf(id).LeadingDigits), nsn, {0}) # {}
    ELSE TypeInRegion(id, nsn) # "UNKNOWN"
TypeOfNumber(regions, nsn) ==
    IF Len(regions) = 0 THEN "UNKNOWN"
    ELSE IF Len(regions) = 1 THEN TypeInRegion(regions[1], nsn)
    ELSE IF \E k \in 1..Len(regions) : IsOfRegion(regions[k], nsn)
         THEN TypeInRegion(
                  regions[CHOOSE k \in 1..Len(regions) :
                             /\ IsOfRegion(regions[k], nsn)
                             /\ \A j \in 1..(k - 1) : ~IsOfRegion(regions[j], nsn)],
                  nsn)
    ELSE "UNKNOWN"

\* C20: getNumberType returns UNKNOWN when the number has no metadata or its
\* national significant number does not match the general descriptor,
\* otherwise the type of the first descriptor that matches among premium
\* rate, toll free, shared cost, VoIP, personal number, pager, UAN and
\* voicemail, otherwise FIXED_LINE_OR_MOBILE, FIXED_LINE or MOBILE by the
\* fixed-line and mobile descriptors and the flag, and UNKNOWN otherwise.
TypeByDecisionOrder ==
    (verdict.op = "validate" /\ verdict.type # None)
       => /\ verdict.panic = ""
          /\ verdict.type
                = Some(TypeOfNumber(regionsForCode(GetCountryCode(numA.num)),
                                    NsnDigits(numA.num)))

(***************************************************************************)
(* Specification SpecZeros: one caller, after init(), parses a text onto a *)
(* fresh PhoneNumber.  text.out is the national significant number the     *)
(* parse has resolved.  The texts are every string of up to MaxNsnLen      *)
(* digits 0 and 7, the longest strings of digits parse accepts and         *)
(* rejects, numbers with a national prefix or a country calling code       *)
(* before a leading zero, and a number with letters and a star.            *)
(***************************************************************************)
MaxNsnLen == 6
ZeroInputs ==
    { [text |-> t, region |-> "US"] :
        t \in UNION { [1..n -> { 48, 55 }] : n \in 1..MaxNsnLen }
                \cup { RepeatByte(48, MAX_LENGTH_FOR_NSN),
                       RepeatByte(57, MAX_LENGTH_FOR_NSN),
                       RepeatByte(48, MAX_LENGTH_FOR_NSN + 1),
                       \* "650*253ABC0"
                       << 54, 53, 48, 42, 50, 53, 51, 65, 66, 67, 48 >> } }
      \cup { [text |-> << 48, 52, 52, 54, 54, 56, 49, 56, 48, 48 >>,    \* "0446681800"
              region |-> "CH"],
             [text |-> << 43, 51, 57, 48, 50, 51, 54, 54, 49, 56, 51, 48, 48 >>,
              region |-> UNKNOWN_REGION] }                        \* "+390236618300"

\* num, err := parse(numberToParse, defaultRegion)
ParseOntoFresh(numberToParse, defaultRegion) ==
    /\ pc["main"] = "idle"
    /\ \E r \in { parse(World, numberToParse, defaultRegion) } :
           /\ numA' = Parsed(r, numberToParse, defaultRegion)
           /\ text' = [NoText EXCEPT !.op = "nsn", !.out = r.nsn]
           /\ Globals(r.w)
    /\ Called("number")
    /\ UNCHANGED << numB, verdict >>

NextZeros == \E i \in ZeroInputs : ParseOntoFresh(i.text, i.region)

SpecZeros == Init /\ [][NextZeros]_vars

\* The zeros a digit string starts with, its last digit not counted.
ZerosBeforeLast(nsn) ==
    Cardinality({ k \in 1..(Len(nsn) - 1) : \A j \in 1..k : nsn[j] = 48 })

\* C12: after a successful parse onto a fresh PhoneNumber,
\* italian_leading_zero is true exactly when the national significant number
\* has two digits or more and starts with "0"; number_of_leading_zeros is
\* unset when italian_leading_zero is false or there is one leading zero,
\* and otherwise the number of leading zeros, the last digit not counted;
\* and the zeros followed by the decimal national number are the national
\* significant number again.
LeadingZerosFaithful ==
    (text.op = "nsn" /\ numA.origin = "parse" /\ numA.st = "ok")
       => /\ GetItalianLeadingZero(numA.num)
                <=> (Len(text.out) >= 2 /\ text.out[1] = 48)
          /\ (~GetItalianLeadingZero(numA.num) \/ ZerosBeforeLast(text.out) = 1)
                => numA.num.NumberOfLeadingZeros = None
          /\ (GetItalianLeadingZero(numA.num) /\ ZerosBeforeLast(text.out) # 1)
                => numA.num.NumberOfLeadingZeros = Some(ZerosBeforeLast(text.out))
          /\ NsnDigits(numA.num) = text.out

(***************************************************************************)
(* More properties of the sequential caller, specification Spec.           *)
(***************************************************************************)
\* C13: the extension of a number that parse has returned, when set, is one
\* to seven digits and nothing else: the digits captured, without the
\* marker or the punctuation of the extension clause.
ExtensionIsDigits ==
    (numA.origin = "parse" /\ numA.st = "ok" /\ IsSet(numA.num.Extension))
       => /\ Len(GetExtension(numA.num)) \in 1..7
          /\ \A k \in 1..Len(GetExtension(numA.num)) :
                IsAsciiDigit(GetExtension(numA.num)[k])

\* The verdict the matcher is to give for two PhoneNumbers: their copies
\* compared field by field, an unset field being its default, after the raw
\* input, the country code source and the carrier code are put aside.
IsSuffix(t, s) == Len(t) <= Len(s) /\ From(s, Len(s) - Len(t)) = t
SameButCountryCode(a, b) ==
    /\ GetNationalNumber(a) = GetNationalNumber(b)
    /\ GetExtension(a) = GetExtension(b)
    /\ GetItalianLeadingZero(a) = GetItalianLeadingZero(b)
    /\ GetNumberOfLeadingZeros(a) = GetNumberOfLeadingZeros(b)
NsnSuffixOfTheOther(a, b) ==
    IsSuffix(NsnDigits(a), NsnDigits(b)) \/ IsSuffix(NsnDigits(b), NsnDigits(a))
MatchOf(a, b) ==
    IF /\ Len(GetExtension(a)) > 0 /\ Len(GetExtension(b)) > 0
       /\ GetExtension(a) # GetExtension(b)
    THEN "NO_MATCH"
    ELSE IF GetCountryCode(a) # 0 /\ GetCountryCode(b) # 0
         THEN IF GetCountryCode(a) = GetCountryCode(b) /\ SameButCountryCode(a, b)
              THEN "EXACT_MATCH"
              ELSE IF GetCountryCode(a) = GetCountryCode(b) /\ NsnSuffixOfTheOther(a, b)
                   THEN "SHORT_NSN_MATCH"
              ELSE "NO_MATCH"
    ELSE IF SameButCountryCode(a, b) THEN "NSN_MATCH"
    ELSE IF NsnSuffixOfTheOther(a, b) THEN "SHORT_NSN_MATCH"
    ELSE "NO_MATCH"

\* C15: isNumberMatchWithNumbers of two numbers that both have a country
\* code returns NO_MATCH when both have extensions and these differ,
\* EXACT_MATCH when the numbers are equal, SHORT_NSN_MATCH when the country
\* codes are equal and one national significant number ends with the other,
\* and NO_MATCH otherwise.
MatchWithCountryCodes ==
    (verdict.op = "match" /\ GetCountryCode(numA.num) # 0 /\ GetCountryCode(numB.num) # 0)
       => /\ verdict.panic = ""
          /\ verdict.match = MatchOf(numA.num, numB.num)

\* C16: isNumberMatchWithNumbers of two numbers of which one or both have no
\* country code returns NSN_MATCH when they are equal but for the country
\* code, SHORT_NSN_MATCH when one national significant number ends with the
\* other, and NO_MATCH otherwise, whichever of the two lacks the country code.
MatchWithoutCountryCode ==
    (verdict.op = "match" /\ (GetCountryCode(numA.num) = 0 \/ GetCountryCode(numB.num) = 0))
       => /\ verdict.panic = ""
          /\ verdict.match = MatchOf(numA.num, numB.num)
          /\ verdict.back = "match"
                => (verdict.backPanic = "" /\ verdict.backMatch = verdict.match)

\* The national significant number nsn in groups: digits and single hyphens
\* between them, none at either end.
GroupedWithHyphens(g, nsn) ==
    /\ \A k \in 1..Len(g) : g[k] \in (48..57) \cup { 45 }
    /\ SelectSeq(g, LAMBDA c : c # 45) = nsn
    /\ Len(g) > 0 => (g[1] # 45 /\ g[Len(g)] # 45)
    /\ \A k \in 1..(Len(g) - 1) : ~(g[k] = 45 /\ g[k + 1] = 45)

\* s is head, then the grouped national significant number, then tail.
Rfc3966Shaped(s, head, nsn, tail) ==
    /\ Len(s) >= Len(head) + Len(tail)
    /\ Slice(s, 0, Len(head)) = head
    /\ From(s, Len(s) - Len(tail)) = tail
    /\ GroupedWithHyphens(Slice(s, Len(head), Len(s) - Len(tail)), nsn)

\* C19: format(N, RFC3966) of a number with a valid country code is "tel:+",
\* the country code and "-", then the national significant number in groups
\* separated by single hyphens, then ";ext=" and the extension when the
\* number has one.
Rfc3966Output ==
    (text.op = "format" /\ text.fmt = "RFC3966"
       /\ hasValidCountryCallingCode(GetCountryCode(numA.num)))
       => /\ text.panic = ""
          /\ Rfc3966Shaped(
                 text.out,
                 RFC3966_PREFIX \o << PLUS_SIGN >> \o Itoa(GetCountryCode(numA.num))
                   \o << 45 >>,
                 NsnDigits(numA.num),
                 IF Len(GetExtension(numA.num)) > 0
                 THEN RFC3966_EXTN_PREFIX \o GetExtension(numA.num) ELSE << >>)

(***************************************************************************)
(* Specification SpecOriginal: one caller, after init(), parses a string   *)
(* keeping the raw input, or builds a PhoneNumber with or without a raw    *)
(* input, and formats it in its original format.                           *)
(***************************************************************************)
OriginalNumbers ==
    {
      [Number(41, << 4, 4, 6, 6, 8, 1, 6, 5, 0 >>)                       \* raw input "044 668 16 50"
         EXCEPT !.RawInput = Some(<< 48, 52, 52, 32, 54, 54, 56, 32, 49, 54, 32, 53, 48 >>),
                !.CountryCodeSource = Some("FROM_DEFAULT_COUNTRY")],
      [Number(41, << 4, 4, 6, 6, 8, 1, 8, 0, 0 >>)                       \* raw input "+41 44 668 1800"
         EXCEPT !.RawInput = Some(<< 43, 52, 49, 32, 52, 52, 32, 54, 54, 56, 32, 49, 56, 48, 48 >>),
                !.CountryCodeSource = Some("FROM_NUMBER_WITH_PLUS_SIGN")],
      [Number(41, << 4, 4, 6, 6, 8, 1, 8, 0, 0 >>)                       \* raw input "011 41 44 668 1800"
         EXCEPT !.RawInput = Some(<< 48, 49, 49, 32, 52, 49, 32, 52, 52, 32, 54, 54, 56, 32, 49, 56, 48, 48 >>),
                !.CountryCodeSource = Some("FROM_NUMBER_WITH_IDD")],
      [Number(41, << 4, 4, 6, 6, 8, 1, 8, 0, 0 >>)                       \* raw input "41 44 668 1800"
         EXCEPT !.RawInput = Some(<< 52, 49, 32, 52, 52, 32, 54, 54, 56, 32, 49, 56, 48, 48 >>),
                !.CountryCodeSource = Some("FROM_NUMBER_WITHOUT_PLUS_SIGN")],
      [Number(1, << 6, 5, 0, 2, 5, 3, 0, 0, 0, 0 >>)                       \* raw input "650 253 0000"
         EXCEPT !.RawInput = Some(<< 54, 53, 48, 32, 50, 53, 51, 32, 48, 48, 48, 48 >>),
                !.CountryCodeSource = Some("FROM_DEFAULT_COUNTRY")],
      [Number(1, << 6, 5, 0, 2, 5, 3, 0, 0, 0, 0 >>)                       \* raw input "6502530000"
         EXCEPT !.RawInput = Some(<< 54, 53, 48, 50, 53, 51, 48, 48, 48, 48 >>)],
      [Number(800, << 3, 5, 4, 4, 9, 5, 2, 1, 5, 6, 0, 1, 8, 0, 6, 3, 1, 6, 0 >>)                       \* raw input "+800 1234 5678"
         EXCEPT !.RawInput = Some(<< 43, 56, 48, 48, 32, 49, 50, 51, 52, 32, 53, 54, 55, 56 >>),
                !.CountryCodeSource = Some("FROM_NUMBER_WITH_PLUS_SIGN")],
      [Number(0, << 1, 2, 3 >>)                       \* raw input "abc-123"
         EXCEPT !.RawInput = Some(<< 97, 98, 99, 45, 49, 50, 51 >>),
                !.CountryCodeSource = Some("FROM_DEFAULT_COUNTRY")],
      [Number(41, << 0 >>)                       \* raw input "0"
         EXCEPT !.RawInput = Some(<< 48 >>),
                !.CountryCodeSource = Some("FROM_NUMBER_WITHOUT_PLUS_SIGN")],
      Number(41, << 4, 4, 6, 6, 8, 1, 8, 0, 0 >>),
      [Number(39, << 2, 3, 6, 6, 1, 8, 3, 0, 0 >>)
         EXCEPT !.ItalianLeadingZero = Some(TRUE)],
      [Number(41, << 4, 4, 6, 6, 8, 1, 8, 0, 0 >>)
         EXCEPT !.ItalianLeadingZero = Some(TRUE)] }

\* r: what the call has returned.
ParseReturns(r, numberToParse, defaultRegion) ==
    /\ numA' = Parsed(r, numberToParse, defaultRegion)
    /\ Globals(r.w)

\* num, err := parseAndKeepRawInput(numberToParse, defaultRegion)
ParseAndKeepRawInput(numberToParse, defaultRegion) ==
    /\ pc["main"] = "idle"
    /\ ParseReturns(parseAndKeepRawInput(World, numberToParse, defaultRegion),
                    numberToParse, defaultRegion)
    /\ Called("number")
    /\ UNCHANGED << numB, text, verdict >>

\* r: what the call has returned.
FormatReturns(r, op, regionCallingFrom) ==
    /\ text' = [NoText EXCEPT !.op = op, !.region = regionCallingFrom,
                              !.panic = r.panic, !.out = r.out]
    /\ Globals(r.w)

\* s := formatInOriginalFormat(num, regionCallingFrom)
FormatInOriginalFormat(regionCallingFrom) ==
    /\ pc["main"] = "number"
    /\ numA.st = "ok"
    /\ FormatReturns(formatInOriginalFormat(World, numA.num, regionCallingFrom),
                     "original", regionCallingFrom)
    /\ Called("formatted")
    /\ UNCHANGED << numA, numB, verdict >>

NextOriginal ==
    \/ \E numberToParse \in ParseInputs, defaultRegion \in Regions :
          ParseAndKeepRawInput(numberToParse, defaultRegion)
    \/ \E n \in OriginalNumbers : Build(n)
    \/ \E regionCallingFrom \in Regions : FormatInOriginalFormat(regionCallingFrom)

SpecOriginal == Init /\ [][NextOriginal]_vars

\* The characters of s that can be dialled, in their order.
DiallableOf(s) == SelectSeq(s, LAMBDA c : c \in DiallableChars)

\* C14: formatInOriginalFormat of a number that has a raw input returns a
\* string with the diallable characters of the raw input, whatever the
\* country code source of the number: it changes no digit.
OriginalKeepsDigits ==
    (text.op = "original" /\ Len(GetRawInput(numA.num)) > 0)
       => /\ text.panic = ""
          /\ DiallableOf(text.out) = DiallableOf(GetRawInput(numA.num))

(***************************************************************************)
(* Specification SpecMatchText: one caller, after init(), matches a        *)
(* PhoneNumber it has built with a string, or matches two strings.         *)
(***************************************************************************)
MatchTexts ==
    {
      << 43, 52, 49, 52, 52, 54, 54, 56, 49, 56, 48, 48 >>,   \* "+41446681800"
      << 43, 52, 49, 32, 52, 52, 32, 54, 54, 56, 32, 49, 56, 48, 48 >>,   \* "+41 44 668 1800"
      << 48, 52, 52, 32, 54, 54, 56, 32, 49, 56, 32, 48, 48 >>,   \* "044 668 18 00"
      << 52, 52, 54, 54, 56, 49, 56, 48, 48 >>,   \* "446681800"
      << 54, 53, 48, 50, 53, 51, 48, 48, 48, 48 >>,   \* "6502530000"
      << 54, 53, 48, 32, 50, 53, 51, 32, 48, 48, 48, 48, 32, 101, 120, 116, 46, 32, 49, 50 >>,   \* "650 253 0000 ext. 12"
      << 43, 49, 50 >>,   \* "+12"
      << 97, 98, 99 >>,   \* "abc"
      << >> }   \* ""

\* r: what the call has returned.
MatchReturns(r, op, secondNumber) ==
    /\ verdict' = [NoVerdict EXCEPT !.op = op, !.panic = r.panic, !.match = r.match]
    /\ text' = [NoText EXCEPT !.op = op, !.out = secondNumber]
    /\ Globals(r.w)

\* m := isNumberMatchWithOneNumber(num, secondNumber)
IsNumberMatchWithOneNumber(secondNumber) ==
    /\ pc["main"] = "number"
    /\ numA.st = "ok"
    /\ MatchReturns(isNumberMatchWithOneNumber(World, numA.num, secondNumber),
                    "withOne", secondNumber)
    /\ Called("matched")
    /\ UNCHANGED << numA, numB >>

\* m := isNumberMatch(firstNumber, secondNumber)
IsNumberMatch(firstNumber, secondNumber) ==
    /\ pc["main"] = "idle"
    /\ MatchReturns(isNumberMatch(World, firstNumber, secondNumber),
                    "strings", secondNumber)
    /\ numA' = [NoCall EXCEPT !.origin = "text", !.input = firstNumber]
    /\ Called("matched")
    /\ UNCHANGED numB

NextMatchText ==
    \/ \E n \in Numbers : Build(n)
    \/ \E secondNumber \in MatchTexts : IsNumberMatchWithOneNumber(secondNumber)
    \/ \E firstNumber \in MatchTexts, secondNumber \in MatchTexts :
          IsNumberMatch(firstNumber, secondNumber)

SpecMatchText == Init /\ [][NextMatchText]_vars

\* A string is a viable phone number when the number extracted from it is.
ViableText(s) == isViablePhoneNumber(buildNationalNumberForParsing(s).nationalNumber)

\* C17: a match of a number with a string, or of two strings, ends with a
\* match type, and with NOT_A_NUMBER only when one of the strings is not a
\* viable phone number.
NotANumberOnlyIfNotViable ==
    /\ verdict.op = "withOne"
          => /\ verdict.panic = ""
             /\ verdict.match = "NOT_A_NUMBER" => ~ViableText(text.out)
    /\ verdict.op = "strings"
          => /\ verdict.panic = ""
             /\ verdict.match = "NOT_A_NUMBER"
                   => (~ViableText(numA.input) \/ ~ViableText(text.out))

(***************************************************************************)
(* Specification SpecChoose: one caller, after init(), has the formatter   *)
(* select the formatting pattern for a national significant number from    *)
(* the formats of a region that formatNsnWithCarrier walks for a target.   *)
(***************************************************************************)
ChooseRegions == { "US", "CA", "CH", "IT", "GB", "001", "ZZ" }
ChooseFormats == { "INTERNATIONAL", "NATIONAL", "RFC3966" }
ChooseNsns ==
    {
      << 52, 52, 54, 54, 56, 49, 56, 48, 48 >>,   \* "446681800"
      << 57, 49, 54, 54, 56, 49, 56, 48, 48 >>,   \* "916681800"
      << 49, 50, 51, 52, 53 >>,   \* "12345"
      << 52, 52, 54, 54, 56 >>,   \* "44668"
      << 56, 48, 48, 49, 50, 51, 52, 53, 54 >>,   \* "800123456"
      << 54, 53, 48, 50, 53, 51, 48, 48, 48, 48 >>,   \* "6502530000"
      << 49, 50, 51, 52, 53, 54, 55, 56 >>,   \* "12345678"
      << >> }   \* ""

\* The pattern of the NumberFormat chosen, "" for nil.
PatternOf(chosen) == IF chosen = None THEN "" ELSE Val(chosen).Pattern

\* r: what the call has returned.
ChooseReturns(r, regionCode, numberFormat, nationalNumber) ==
    /\ verdict' = [NoVerdict EXCEPT !.op = "choose", !.match = PatternOf(r.chosen)]
    /\ text' = [NoText EXCEPT !.op = "choose", !.region = regionCode,
                              !.fmt = numberFormat, !.out = nationalNumber]
    /\ Globals(r.w)

\* f := chooseFormattingPatternForNumber(availableFormats, nationalNumber)
ChooseFormattingPatternForNumber(regionCode, numberFormat, nationalNumber) ==
    /\ pc["main"] = "idle"
    /\ ChooseReturns(
           chooseFormattingPatternForNumber(
               World,
               availableFormatsOf(getMetadataForRegion(World, regionCode), numberFormat),
               nationalNumber),
           regionCode, numberFormat, nationalNumber)
    /\ Called("done")
    /\ UNCHANGED << numA, numB >>

NextChoose ==
    \E regionCode \in ChooseRegions, numberFormat \in ChooseFormats,
       nationalNumber \in ChooseNsns :
          ChooseFormattingPatternForNumber(regionCode, numberFormat, nationalNumber)

SpecChoose == Init /\ [][NextChoose]_vars

\* The list the formatter is to walk for a target: the international list
\* for INTERNATIONAL, the national list when that is empty and for NATIONAL
\* and RFC3966.
ListFor(metadata, numberFormat) ==
    IF numberFormat = "INTERNATIONAL" /\ Len(Deref(metadata).IntlNumberFormat) > 0
    THEN Deref(metadata).IntlNumberFormat
    ELSE Deref(metadata).NumberFormat

\* An entry qualifies when its last leading-digits pattern, if it has one,
\* matches at the start of the NSN and its pattern matches the whole NSN.
Qualifies(numFormat, nsn) ==
    /\ Len(numFormat.LeadingDigitsPattern) > 0
          => Ends(Compile(numFormat.LeadingDigitsPattern[Len(numFormat.LeadingDigitsPattern)]),
                  nsn, {0}) # {}
    /\ FullMatch(Compile(numFormat.Pattern), nsn)

\* The pattern of the first entry of the list that qualifies, "" when none does.
FirstQualifying(list, nsn) ==
    IF \E k \in 1..Len(list) : Qualifies(list[k], nsn)
    THEN list[CHOOSE k \in 1..Len(list) :
                 /\ Qualifies(list[k], nsn)
                 /\ \A j \in 1..(k - 1) : ~Qualifies(list[j], nsn)].Pattern
    ELSE ""

\* C18: the formatter selects, from the list of the target, the first entry
\* whose last leading-digits pattern matches at the start of the NSN and
\* whose pattern matches the whole NSN, and none when no entry qualifies.
FirstQualifyingChosen ==
    verdict.op = "choose"
       => verdict.match =
             FirstQualifying(ListFor(getMetadataForRegion(World, text.region), text.fmt),
                             text.out)

(***************************************************************************)
(* Specification SpecPossible: one caller, after init(), builds a          *)
(* PhoneNumber and asks why it is or is not a possible number.             *)
(***************************************************************************)
PossibleCodes == { 0, 1, 39, 41, 44, 800, 999 }
PossibleNationalNumbers ==
    { << 5 >>,
      << 1, 2, 3, 4, 5, 6 >>,
      << 2, 5, 3, 0, 0, 0, 0 >>,
      << 1, 2, 3, 4, 5, 6, 7, 8 >>,
      << 4, 4, 6, 6, 8, 1, 8, 0, 0 >>,
      << 6, 5, 0, 2, 5, 3, 0, 0, 0, 0 >>,
      << 6, 5, 0, 2, 5, 3, 0, 0, 0, 0, 1 >>,
      << 1, 2, 3, 4, 5, 6, 7, 8, 9, 0, 1, 2, 3, 4, 5, 6, 7, 8 >>,
      << 3, 5, 4, 4, 9, 5, 2, 1, 5, 6, 0, 1, 8, 0, 6, 3, 1, 6, 0 >> }  \* 0x3132333435363738
PossibleNumbers ==
    { Number(cc, nn) : cc \in PossibleCodes, nn \in PossibleNationalNumbers }

\* r: what the call has returned.
ReasonReturns(r) ==
    /\ verdict' = [NoVerdict EXCEPT !.op = "reason", !.panic = r.panic,
                                    !.match = r.reason]
    /\ Globals(r.w)

\* reason := isPossibleNumberWithReason(num)
IsPossibleNumberWithReason ==
    /\ pc["main"] = "number"
    /\ numA.st = "ok"
    /\ ReasonReturns(isPossibleNumberWithReason(World, numA.num))
    /\ Called("done")
    /\ UNCHANGED << numA, numB, text >>

NextPossible ==
    \/ \E n \in PossibleNumbers : Build(n)
    \/ IsPossibleNumberWithReason

SpecPossible == Init /\ [][NextPossible]_vars

\* The general possible-number pattern of the main region of a calling code.
PossiblePatternOf(countryCode) ==
    Compile(Deref(Some([id |-> getRegionCodeForCountryCode(countryCode), gen |-> 1]))
               .GeneralDesc.PossibleNumberPattern)

\* The verdict for a national significant number that the pattern does not
\* match: too long when the pattern matches a prefix of it, too short
\* otherwise.
TooLongOrTooShort(pattern, nsn) ==
    IF Ends(pattern, nsn, {0}) # {} THEN "TOO_LONG" ELSE "TOO_SHORT"

\* C21: isPossibleNumberWithReason of a number with a known country code
\* whose national significant number the general possible-number pattern
\* does not match is TOO_LONG when the pattern matches a prefix of the
\* national significant number and TOO_SHORT otherwise.
TooLongFromTooShort ==
    (/\ verdict.op = "reason"
     /\ hasValidCountryCallingCode(GetCountryCode(numA.num))
     /\ ~FullMatch(PossiblePatternOf(GetCountryCode(numA.num)), NsnDigits(numA.num)))
       => /\ verdict.panic = ""
          /\ verdict.match = TooLongOrTooShort(PossiblePatternOf(GetCountryCode(numA.num)),
                                               NsnDigits(numA.num))

(***************************************************************************)
(* Specification SpecIdd: one caller, after init(), has the international  *)
(* prefix stripped from a buffer, for an IDD pattern.                      *)
(***************************************************************************)
IddPrefixes == { "011", "00", "0", "1" }
IddBuffers ==
    {
      << 43, 52, 49, 52, 52, 54, 54, 56, 49, 56, 48, 48 >>,   \* "+41446681800"
      << 43, 43, 52, 49, 52, 52, 54, 54, 56, 49, 56, 48, 48 >>,   \* "++41446681800"
      << 49, 43, 50, 51, 52, 53 >>,   \* "1+2345"
      << 48, 49, 49, 52, 49, 52, 52, 54, 54, 56 >>,   \* "0114144668"
      << 48, 49, 49, 32, 52, 49, 32, 52, 52 >>,   \* "011 41 44"
      << 48, 48, 52, 49, 52, 52, 54, 54 >>,   \* "00414466"
      << 48, 48, 49, 49, 50, 51, 52 >>,   \* "0011234"
      << 48, 49, 49, 48, 49, 50, 51, 52 >>,   \* "01101234"
      << 48, 49, 49, 49, 48, 50, 51, 52 >>,   \* "01110234"
      << 48, 49, 49, 49 >>,   \* "0111"
      << 48, 49, 49 >>,   \* "011"
      << 53, 53, 48, 49, 49, 52, 52 >>,   \* "5501144"
      << 54, 53, 48, 50, 53, 51, 48, 48, 48, 48 >>,   \* "6502530000"
      << 52, 52, 32, 54, 54, 56, 45, 49, 56, 48, 48 >>,   \* "44 668-1800"
      << 49, 45, 56, 48, 48, 45, 70, 76, 79, 87, 69, 82, 83 >>,   \* "1-800-FLOWERS"
      << 97, 98, 99 >>,   \* "abc"
      <<  >>,   \* ""
      << 43 >>,   \* "+"
      << 48, 43, 49, 49 >>,   \* "0+11"
      << 48, 48 >>,   \* "00"
      << 48, 48, 48 >>,   \* "000"
      << 48, 48, 49, 48 >>,   \* "0010"
      << 48, 49 >>,   \* "01"
      << 49, 48 >>,   \* "10"
      << 49, 48, 48 >>,   \* "100"
      << 49, 49, 48, 48 >>,   \* "1100"
      << 43, 48 >>,   \* "+0"
      << 239, 188, 139, 52, 49 >>,   \* "U+FF0B 41"
      << 49, 50, 51, 52, 53 >>,   \* "12345"
      << 48, 32, 48, 32, 52, 32, 49 >> }   \* "0 0 4 1"

\* r: what the call has returned; number: the buffer before the call.
IddReturns(r, number, possibleIddPrefix) ==
    /\ verdict' = [NoVerdict EXCEPT !.op = "idd", !.panic = r.panic, !.match = r.source]
    /\ text' = [NoText EXCEPT !.op = "idd", !.fmt = possibleIddPrefix, !.out = number]
    /\ numA' = [NoCall EXCEPT !.origin = "buffer", !.input = r.number]
    /\ Globals(r.w)

\* source := maybeStripInternationalPrefixAndNormalize(number, possibleIddPrefix)
MaybeStripInternationalPrefixAndNormalize(number, possibleIddPrefix) ==
    /\ pc["main"] = "idle"
    /\ IddReturns(maybeStripInternationalPrefixAndNormalize(World, number, possibleIddPrefix),
                  number, possibleIddPrefix)
    /\ Called("done")
    /\ UNCHANGED numB

NextIdd ==
    \E number \in IddBuffers, possibleIddPrefix \in IddPrefixes :
       MaybeStripInternationalPrefixAndNormalize(number, possibleIddPrefix)

SpecIdd == Init /\ [][NextIdd]_vars

\* The length of the run of plus characters a buffer begins with.
LeadingPlusRun(number) ==
    IF Ends(PLUS_CHARS_PATTERN, number, {0}) = {} THEN 0
    ELSE CHOOSE e \in Ends(PLUS_CHARS_PATTERN, number, {0}) :
            \A f \in Ends(PLUS_CHARS_PATTERN, number, {0}) : f <= e

\* normalized: the normalized buffer; ind: where the IDD pattern matches
\* first in it.  The prefix is an IDD when the match is at the start and the
\* digit after it is not 0.
IddAtStart(normalized, ind) ==
    /\ Len(ind) > 0 /\ ind[1] = 0
    /\ ind[2] < Len(normalized) => normalized[ind[2] + 1] # 48
ClassifiedByIdd(normalized, ind) ==
    IF IddAtStart(normalized, ind)
    THEN [source |-> "FROM_NUMBER_WITH_IDD", number |-> From(normalized, ind[2])]
    ELSE [source |-> "FROM_DEFAULT_COUNTRY", number |-> normalized]

\* The source and the buffer by the start of the buffer only.
ClassifiedByStart(number, possibleIddPrefix) ==
    IF Len(number) = 0 THEN [source |-> "FROM_DEFAULT_COUNTRY", number |-> number]
    ELSE IF LeadingPlusRun(number) > 0
         THEN [source |-> "FROM_NUMBER_WITH_PLUS_SIGN",
               number |-> normalize(From(number, LeadingPlusRun(number)))]
    ELSE ClassifiedByIdd(normalize(number),
                         FindIndex(Compile(possibleIddPrefix), normalize(number)))

\* C22: maybeStripInternationalPrefixAndNormalize returns
\* FROM_NUMBER_WITH_PLUS_SIGN iff the buffer begins with plus characters,
\* and removes that run; otherwise FROM_NUMBER_WITH_IDD iff the IDD pattern
\* matches at the start of the normalized buffer and the digit after the
\* match is not 0, and removes the match; otherwise FROM_DEFAULT_COUNTRY,
\* and the buffer is the normalized input.
ClassifiedByBufferStart ==
    verdict.op = "idd"
       => /\ verdict.panic = ""
          /\ verdict.match = ClassifiedByStart(text.out, text.fmt).source
          /\ numA.input = ClassifiedByStart(text.out, text.fmt).number

(***************************************************************************)
(* Specification SpecStrip: one caller, after init(), has the national     *)
(* prefix and the carrier code stripped from a buffer, for the metadata of *)
(* a region or for metadata of its own.                                    *)
(***************************************************************************)
StripMetadata == { "US", "CH", "IT", "XX" }
StripCarrierCodes == { << >>, << 55 >> }
StripBuffers ==
    {
      << 48, 52, 52, 54, 54, 56, 49, 56, 48, 48 >>,   \* "0446681800"
      << 52, 52, 54, 54, 56, 49, 56, 48, 48 >>,   \* "446681800"
      << 52, 48, 52, 54, 54, 56, 49, 56, 48 >>,   \* "404668180"
      << 48, 52, 52, 54, 54, 56 >>,   \* "044668"
      << 49, 54, 53, 48, 50, 53, 51, 48, 48, 48, 48 >>,   \* "16502530000"
      << 54, 53, 48, 50, 53, 51, 48, 48, 48, 48 >>,   \* "6502530000"
      << 50, 49, 50, 50, 53, 51, 48, 48, 48, 48 >>,   \* "2122530000"
      << 48, 49, 49, 49, 53, 49, 50, 51, 52, 53, 54, 55, 56 >>,   \* "0111512345678"
      << 57, 48, 49, 49, 49, 53, 49, 50, 51, 52, 53 >>,   \* "90111512345"
      << 57, 49, 49, 49, 50, 51, 52, 53, 54, 55, 56 >>,   \* "91112345678"
      << 48, 49, 49, 49, 53 >>,   \* "01115"
      << 48, 50, 51, 54, 54, 49, 56, 51, 48, 48 >>,   \* "0236618300"
      << 49 >>,   \* "1"
      << >> }   \* ""

\* r: what the call has returned; number and carrierCode: the buffers
\* before the call.
StripReturns(r, number, carrierCode, id) ==
    /\ verdict' = [carrierCode |-> r.carrierCode]
                    @@ [NoVerdict EXCEPT !.op = "strip",
                                         !.match = IF r.stripped THEN "true" ELSE "false"]
    /\ text' = [NoText EXCEPT !.op = "strip", !.region = id, !.out = r.number]
    /\ numA' = [NoCall EXCEPT !.origin = "number", !.input = number]
    /\ numB' = [NoCall EXCEPT !.origin = "carrierCode", !.input = carrierCode]
    /\ Globals(r.w)

\* ok := maybeStripNationalPrefixAndCarrierCode(number, metadata, carrierCode)
MaybeStripNationalPrefixAndCarrierCode(number, id, carrierCode) ==
    /\ pc["main"] = "idle"
    /\ StripReturns(
           maybeStripNationalPrefixAndCarrierCode(
               World, number, Some([id |-> id, gen |-> 1]), carrierCode),
           number, carrierCode, id)
    /\ Called("done")

NextStrip ==
    \E number \in StripBuffers, id \in StripMetadata, carrierCode \in StripCarrierCodes :
       MaybeStripNationalPrefixAndCarrierCode(number, id, carrierCode)

SpecStrip == Init /\ [][NextStrip]_vars

\* C23: when maybeStripNationalPrefixAndCarrierCode returns false, the
\* buffer and the carrier code hold what they held before the call.
UnchangedWhenNotStripped ==
    (verdict.op = "strip" /\ verdict.match = "false")
       => /\ text.out = numA.input
          /\ verdict.carrierCode = numB.input

(***************************************************************************)
(* Specification SpecShort: one caller, after init(), parses short strings *)
(* of digits with and without a national prefix, keeping the raw input or  *)
(* not.                                                                    *)
(***************************************************************************)
MinShortLen == 3
MaxShortLen == 9
ShortPrefixes == { << >>, << 48 >>, << 49 >> }
ShortBodies ==
    { << 52, 52, 54, 54, 56, 49, 56, 48, 48 >>,   \* "446681800"
      << 54, 53, 48, 50, 53, 51, 48, 48, 48, 48 >> }   \* "6502530000"
ShortInputs ==
    { p \o Slice(body, 0, n) :
         p \in ShortPrefixes, body \in ShortBodies, n \in MinShortLen..MaxShortLen }

NextShort ==
    \/ \E numberToParse \in ShortInputs, defaultRegion \in Regions :
          Parse(numberToParse, defaultRegion)
    \/ \E numberToParse \in ShortInputs, defaultRegion \in Regions :
          ParseAndKeepRawInput(numberToParse, defaultRegion)

SpecShort == Init /\ [][NextShort]_vars

\* A candidate is shorter than the possible numbers of a region when the
\* possible-number pattern matches neither it nor a prefix of it.
ShorterThanPossible(id, candidate) ==
    Ends(Compile(Deref(Some([id |-> id, gen |-> 1])).GeneralDesc.PossibleNumberPattern),
         candidate, {0}) = {}

\* The strip of the national prefix of the region from a string of digits
\* is undone: the string starts with the prefix and what follows it is
\* shorter than the possible numbers of the region.
StripUndone(id, digits) ==
    /\ HasPrefix(digits, PrefixesOf(id).NationalPrefix)
    /\ ShorterThanPossible(id, From(digits, Len(PrefixesOf(id).NationalPrefix)))

\* C24: when parse strips the national prefix and the rest is shorter than
\* the possible numbers of the region, the national significant number of
\* the result is the normalized number as it was before the strip, and no
\* carrier code is recorded.
ShortNumberKept ==
    (/\ numA.origin = "parse" /\ numA.st = "ok"
     /\ numA.region \in { "US", "CH" }
     /\ StripUndone(numA.region, numA.input))
       => /\ NsnDigits(numA.num) = numA.input
          /\ numA.num.PreferredDomesticCarrierCode = None

(***************************************************************************)
(* Specification SpecConstruct: one caller, after init(), calls the        *)
(* exported constructor NewPhoneNumberUtil itself, with a                  *)
(* calling-code-to-regions map of its own, several times.  The constructor *)
(* returns a new PhoneNumberUtil each time and adds to the package-level   *)
(* sets; it leaves instance as it is.                                      *)
(***************************************************************************)
MaxConstructCalls == 3

\* Maps a caller passes: nil, maps with one calling code, the map of the
\* build, and a map that lists other regions under calling code 1.
ConstructMaps ==
    { EmptyMap,
      7 :> << "RU" >>,
      7 :> << "001" >>,
      1 :> << "BS" >>,
      CountryCodeToRegion,
      (1 :> << "US", "AG" >>) @@ (7 :> << "RU", "KZ" >>) @@ (808 :> << "001" >>) }

\* The maps the caller has passed so far, in the order of the calls.
ConstructedWith == IF verdict.op = "NewPhoneNumberUtil" THEN verdict.maps ELSE << >>

\* The sets after the constructor has run.
ConstructReturns(sets, countryCallingCodeToRegionCodeMap) ==
    /\ supportedRegions' = sets.supportedRegions
    /\ nanpaRegions' = sets.nanpaRegions
    /\ countryCodesForNonGeographicalRegion' =
          sets.countryCodesForNonGeographicalRegion
    /\ created' = created + 1
    /\ verdict' = [util |-> created + 1,
                   maps |-> Append(ConstructedWith, countryCallingCodeToRegionCodeMap)]
                    @@ [NoVerdict EXCEPT !.op = "NewPhoneNumberUtil"]

\* util := NewPhoneNumberUtil(filePrefix, metadataLoader,
\*                            countryCallingCodeToRegionCodeMap)
CallNewPhoneNumberUtil(countryCallingCodeToRegionCodeMap) ==
    /\ pc["main"] = "idle"
    /\ local["main"].calls < MaxConstructCalls
    /\ ConstructReturns(NewPhoneNumberUtil(CurrentSets, countryCallingCodeToRegionCodeMap),
                        countryCallingCodeToRegionCodeMap)
    /\ Called("idle")
    /\ UNCHANGED << instance, regionToMetadataMap,
                    countryCodeToNonGeographicalMetadataMap, loads, regexCache,
                    fatal, numA, numB, text >>

NextConstruct ==
    \E countryCallingCodeToRegionCodeMap \in ConstructMaps :
       CallNewPhoneNumberUtil(countryCallingCodeToRegionCodeMap)

SpecConstruct == Init /\ [][NextConstruct]_vars

(***************************************************************************)
(* The NANPA set.                                                          *)
(***************************************************************************)
AllRegionCodes ==
    Regions \cup UNION { RegionsIn(m, DOMAIN m) : m \in ConstructMaps }

\* The maps a PhoneNumberUtil has been constructed with: the one
\* createInstance passes, and the ones of the caller.
ConstructionMaps ==
    { CountryCodeToRegion }
       \cup { ConstructedWith[i] : i \in 1..Len(ConstructedWith) }

\* The region codes these maps list under country calling code 1.
ListedUnderCallingCodeOne ==
    UNION { RegionsIn(m, { NANPA_COUNTRY_CODE } \cap DOMAIN m) : m \in ConstructionMaps }

\* C25: once a PhoneNumberUtil has been constructed, isNANPACountry(r) is true
\* exactly for the region codes listed under country calling code 1 in the
\* calling-code-to-regions map it was constructed with, and false for every
\* other region code.
NanpaSetIsCallingCodeOne ==
    created >= 1 =>
        \A r \in AllRegionCodes :
            isNANPACountry(r) <=> r \in ListedUnderCallingCodeOne

(***************************************************************************)
(* Specification SpecExtract: one caller, after init(), extracts a country *)
(* calling code from a buffer of digits, for several contents of the       *)
(* calling-code-to-regions map.                                            *)
(***************************************************************************)
\* extractCountryCode(fullNumber, nationalNumber) when the package variable
\* CountryCodeToRegion holds registry: [code, nationalNumber]
RECURSIVE extractCountryCodeIn(_, _, _, _)
extractCountryCodeIn(registry, fullNumber, nationalNumber, i) ==
    IF ~(i <= MAX_LENGTH_COUNTRY_CODE /\ i <= Len(fullNumber))
    THEN [code |-> 0, nationalNumber |-> nationalNumber]
    ELSE LET potentialCountryCode == Atoi(Slice(fullNumber, 0, i))
         IN  IF potentialCountryCode \in DOMAIN registry
             THEN [code |-> potentialCountryCode,
                   nationalNumber |-> nationalNumber \o From(fullNumber, i)]
             ELSE extractCountryCodeIn(registry, fullNumber, nationalNumber, i + 1)

extractCountryCodeWith(registry, fullNumber, nationalNumber) ==
    IF Len(fullNumber) = 0 \/ fullNumber[1] = 48
    THEN [code |-> 0, nationalNumber |-> nationalNumber]
    ELSE extractCountryCodeIn(registry, fullNumber, nationalNumber, 1)

\* Contents of CountryCodeToRegion: the one of the build, and it with one
\* more calling code.
ExtractRegistries ==
    { CountryCodeToRegion,
      (12 :> << "XX" >>) @@ CountryCodeToRegion,
      (418 :> << "XX" >>) @@ CountryCodeToRegion,
      (7 :> << "RU" >>) @@ (77 :> << "KZ" >>) @@ CountryCodeToRegion }

ExtractFullNumbers ==
    { << >>,                                    \* ""
      << 48, 52, 49 >>,                         \* "041"
      << 49 >>,                                 \* "1"
      << 49, 50 >>,                             \* "12"
      << 49, 50, 48, 50, 53, 53, 53 >>,         \* "1202555"
      << 52, 49, 56, 52, 52 >>,                 \* "41844"
      << 52, 52, 55, 55 >>,                     \* "4477"
      << 55, 55, 49, 50 >>,                     \* "7712"
      << 56, 48, 48, 49, 50, 51 >>,             \* "800123"
      << 56, 48 >>,                             \* "80"
      << 57, 57, 57, 57 >>,                     \* "9999"
      << 51, 57 >>,                             \* "39"
      << 49, 50, 51 >>,                         \* "123"
      << 52 >> }                                \* "4"

ExtractOutputs == { << >>, << 53 >> }           \* nationalNumber: "", "5"

\* r: what the call has returned.
ExtractReturns(r, registry, fullNumber, nationalNumber) ==
    /\ verdict' = [registry |-> DOMAIN registry, code |-> r.code]
                    @@ [NoVerdict EXCEPT !.op = "extract"]
    /\ text' = [NoText EXCEPT !.op = "extract", !.out = r.nationalNumber]
    /\ numA' = [NoCall EXCEPT !.origin = "fullNumber", !.input = fullNumber]
    /\ numB' = [NoCall EXCEPT !.origin = "nationalNumber", !.input = nationalNumber]
    /\ Globals(World)

\* code := extractCountryCode(fullNumber, nationalNumber)
ExtractCountryCode(registry, fullNumber, nationalNumber) ==
    /\ pc["main"] = "idle"
    /\ ExtractReturns(extractCountryCodeWith(registry, fullNumber, nationalNumber),
                      registry, fullNumber, nationalNumber)
    /\ Called("done")

NextExtract ==
    \E registry \in ExtractRegistries, fullNumber \in ExtractFullNumbers,
       nationalNumber \in ExtractOutputs :
       ExtractCountryCode(registry, fullNumber, nationalNumber)

SpecExtract == Init /\ [][NextExtract]_vars

\* The lengths of the known calling codes fullNumber starts with.
KnownPrefixes(registry, fullNumber) ==
    { i \in 1..MAX_LENGTH_COUNTRY_CODE :
         /\ i <= Len(fullNumber)
         /\ fullNumber[1] # 48
         /\ Atoi(Slice(fullNumber, 0, i)) \in registry }

Longest(lengths) == CHOOSE i \in lengths : \A j \in lengths : j <= i

\* C26: extractCountryCode returns the longest prefix of 1 to 3 digits that
\* is a known country calling code, with the rest of the digits put in the
\* national-number output, whatever the registry holds; it returns 0 and
\* leaves the output as it was when the number is empty, starts with '0' or
\* starts with no known calling code.
LongestKnownPrefixExtracted ==
    verdict.op = "extract" =>
        IF KnownPrefixes(verdict.registry, numA.input) = {}
        THEN verdict.code = 0 /\ text.out = numB.input
        ELSE /\ verdict.code =
                   Atoi(Slice(numA.input, 0,
                              Longest(KnownPrefixes(verdict.registry, numA.input))))
             /\ text.out = numB.input
                   \o From(numA.input,
                           Longest(KnownPrefixes(verdict.registry, numA.input)))

(***************************************************************************)
(* Specification SpecDescriptor: one caller, after init(), matches strings *)
(* of digits against the descriptors of a region and asks for their type.  *)
(***************************************************************************)
DescriptorRegions == { "US", "CH", "IT" }
DescriptorKinds == { "General", "FixedLine", "Mobile", "TollFree", "PremiumRate" }
DescriptorNsns ==
    { << >>,                                                    \* ""
      << 52, 52, 54, 54, 56, 49, 56, 48, 48 >>,                 \* "446681800"
      << 49, 52, 52, 54, 54, 56, 49, 56, 48, 48 >>,             \* "1446681800"
      << 56, 48, 48, 49, 50, 51, 52, 53, 54 >>,                 \* "800123456"
      << 54, 53, 48, 50, 53, 51, 48, 48, 48, 48 >>,             \* "6502530000"
      << 54, 53, 48, 50, 53, 51, 48, 48, 48, 48, 49 >>,         \* "65025300001"
      << 56, 48, 48, 50, 53, 51, 48, 48, 48, 48 >>,             \* "8002530000"
      << 57, 48, 48, 50, 53, 51, 48, 48, 48, 48 >>,             \* "9002530000"
      << 56, 48, 48, 57, 48, 48, 49, 50, 51, 52, 53, 54, 55 >>, \* "8009001234567"
      << 48, 50, 51, 54, 54, 49, 56, 51, 48, 48 >>,             \* "0236618300"
      << 50, 53, 51, 48, 48, 48, 48 >> }                        \* "2530000"

\* The descriptor of a kind of number of a region.
DescriptorOf(id, kind) ==
    IF kind = "General" THEN Deref(Some([id |-> id, gen |-> 1])).GeneralDesc
    ELSE KindsOf(id)[kind]

\* r: what isNumberMatchingDesc has returned.
DescriptorReturns(r, nationalNumber, numberDesc) ==
    /\ verdict' = [desc |-> numberDesc, type |-> ""]
                    @@ [NoVerdict EXCEPT !.op = "desc",
                                         !.match = IF r.match THEN "true" ELSE "false"]
    /\ text' = NoText
    /\ numA' = [NoCall EXCEPT !.origin = "nationalNumber", !.input = nationalNumber]
    /\ numB' = NoCall
    /\ Globals(r.w)

\* ok := isNumberMatchingDesc(nationalNumber, numberDesc)
IsNumberMatchingDesc(nationalNumber, numberDesc) ==
    /\ pc["main"] = "idle"
    /\ DescriptorReturns(isNumberMatchingDesc(World, nationalNumber, numberDesc),
                         nationalNumber, numberDesc)
    /\ Called("done")

\* r: what getNumberTypeHelper has returned.
TypeHelperReturns(r, nationalNumber, id) ==
    /\ verdict' = [desc |-> DescriptorOf(id, "General"), type |-> r.type]
                    @@ [NoVerdict EXCEPT !.op = "type"]
    /\ text' = [NoText EXCEPT !.op = "type", !.region = id]
    /\ numA' = [NoCall EXCEPT !.origin = "nationalNumber", !.input = nationalNumber]
    /\ numB' = NoCall
    /\ Globals(r.w)

\* t := getNumberTypeHelper(nationalNumber, metadata)
GetNumberTypeHelper(nationalNumber, id) ==
    /\ pc["main"] = "idle"
    /\ TypeHelperReturns(
           getNumberTypeHelper(World, nationalNumber, Some([id |-> id, gen |-> 1])),
           nationalNumber, id)
    /\ Called("done")

NextDescriptor ==
    \/ \E nationalNumber \in DescriptorNsns, id \in DescriptorRegions,
          kind \in DescriptorKinds :
          IsNumberMatchingDesc(nationalNumber, DescriptorOf(id, kind))
    \/ \E nationalNumber \in DescriptorNsns, id \in DescriptorRegions :
          GetNumberTypeHelper(nationalNumber, id)

SpecDescriptor == Init /\ [][NextDescriptor]_vars

\* C27: a national significant number matches a descriptor exactly when the
\* whole of it matches the possible-number pattern and the national-number
\* pattern; a number of which only a part matches the general descriptor has
\* no type.
DescriptorsFullMatch ==
    /\ verdict.op = "desc"
          => (verdict.match = "true" <=> DescMatches(verdict.desc, numA.input))
    /\ (verdict.op = "type" /\ ~DescMatches(verdict.desc, numA.input))
          => verdict.type = "UNKNOWN"

(***************************************************************************)
(* Specification SpecDigits: one caller, after init(), normalizes short    *)
(* texts of ASCII, fullwidth and Arabic-Indic characters to digits.        *)
(***************************************************************************)
MaxDigitRunes == 3
\* '1', '9', 'a', '-', fullwidth '2' (U+FF12), Arabic-Indic '3' (U+0663)
DigitRunes == { 49, 57, 97, 45, 65298, 1635 }

RECURSIVE DigitTextsOf(_)
DigitTextsOf(n) ==
    IF n = 0 THEN { << >> }
    ELSE DigitTextsOf(n - 1)
           \cup { s \o EncodeRune(cp) : s \in DigitTextsOf(n - 1), cp \in DigitRunes }

DigitTexts == DigitTextsOf(MaxDigitRunes)

\* out: what normalizeDigitsOnly has returned
DigitsReturns(out, number) ==
    /\ text' = [NoText EXCEPT !.op = "digits", !.out = out]
    /\ numA' = [NoCall EXCEPT !.origin = "number", !.input = number]
    /\ numB' = [NoCall EXCEPT !.origin = "out", !.input = normalizeDigitsOnly(out)]
    /\ verdict' = NoVerdict
    /\ Globals(World)

\* out := normalizeDigitsOnly(number); again := normalizeDigitsOnly(out)
NormalizeDigitsOnly(number) ==
    /\ pc["main"] = "idle"
    /\ DigitsReturns(normalizeDigitsOnly(number), number)
    /\ Called("done")

NextDigits == \E number \in DigitTexts : NormalizeDigitsOnly(number)

SpecDigits == Init /\ [][NextDigits]_vars

\* The ASCII digit of a character with a decimal-digit value, nothing for
\* any other character.
DecimalDigitOf(cp) ==
    IF \E r \in NdRanges : cp >= r[1] /\ cp <= r[2]
    THEN LET r == CHOOSE q \in NdRanges : cp >= q[1] /\ cp <= q[2]
         IN  << 48 + ((cp - r[1]) % 10) >>
    ELSE << >>

RECURSIVE DecimalDigitsFrom(_, _)
DecimalDigitsFrom(s, i) ==
    IF i >= Len(s) THEN << >>
    ELSE DecimalDigitOf(DecodeRune(s, i).cp)
           \o DecimalDigitsFrom(s, i + DecodeRune(s, i).w)

\* C28: normalizeDigitsOnly returns, in order, the ASCII digit of every
\* character of its input that has a decimal-digit value (ASCII, fullwidth,
\* Arabic-Indic) and nothing for the others; the output is made of ASCII
\* digits and normalizing it again returns it unchanged.
DigitsOnlyOfEveryScript ==
    text.op = "digits" =>
        /\ text.out = DecimalDigitsFrom(numA.input, 0)
        /\ \A k \in 1..Len(text.out) : IsAsciiDigit(text.out[k])
        /\ numB.input = text.out

(***************************************************************************)
(* Specification SpecReuse: one caller, after init(), allocates one        *)
(* PhoneNumber and parses into it a few times, keeping the raw input or    *)
(* not.                                                                    *)
(***************************************************************************)
MaxReuseCalls == 3                  \* calls that parse into the object

parseAndKeepRawInputToNumber(w, numberToParse, defaultRegion, phoneNumber) ==
    parseHelper(w, numberToParse, defaultRegion, TRUE, TRUE, phoneNumber)

ReuseInputs ==
    { [text |-> << 48, 52, 52, 32, 54, 54, 56, 32, 49, 56, 32, 48, 48 >>,
       region |-> "CH"],                               \* "044 668 18 00"
      [text |-> << 48, 52, 52, 32, 54, 54, 56, 32, 49, 56, 32, 48, 48,
                   32, 101, 120, 116, 46, 32, 49, 50 >>,
       region |-> "CH"],                               \* "044 668 18 00 ext. 12"
      [text |-> << 43, 51, 57, 32, 48, 50, 32, 51, 54, 54, 49, 32, 56, 51, 48, 48 >>,
       region |-> "ZZ"],                               \* "+39 02 3661 8300"
      [text |-> << 54, 53, 48, 32, 50, 53, 51, 32, 48, 48, 48, 48 >>,
       region |-> "US"],                               \* "650 253 0000"
      [text |-> << 43, 52, 49, 32, 52, 52, 32, 54, 54, 56, 32, 49, 56, 32, 48, 48 >>,
       region |-> "US"],                               \* "+41 44 668 18 00"
      [text |-> << 49, 50 >>, region |-> "US"] }       \* "12"

\* r: what the call has returned; the object is the one of numA.
ReuseReturns(r, op, numberToParse, defaultRegion) ==
    /\ numA' = [Parsed(r, numberToParse, defaultRegion) EXCEPT !.origin = op]
    /\ Globals(r.w)
    /\ Called(IF r.st = "panic" THEN "done" ELSE "idle")
    /\ UNCHANGED << numB, text, verdict >>

\* err := parseToNumber(numberToParse, defaultRegion, phoneNumber)
ParseToNumber(numberToParse, defaultRegion) ==
    /\ pc["main"] = "idle"
    /\ local["main"].calls < MaxReuseCalls
    /\ ReuseReturns(parseToNumber(World, numberToParse, defaultRegion, numA.num),
                    "parseToNumber", numberToParse, defaultRegion)

\* err := parseAndKeepRawInputToNumber(numberToParse, defaultRegion, phoneNumber)
ParseAndKeepRawInputToNumber(numberToParse, defaultRegion) ==
    /\ pc["main"] = "idle"
    /\ local["main"].calls < MaxReuseCalls
    /\ ReuseReturns(
           parseAndKeepRawInputToNumber(World, numberToParse, defaultRegion, numA.num),
           "parseAndKeepRawInputToNumber", numberToParse, defaultRegion)

NextReuse ==
    \/ \E i \in ReuseInputs : ParseToNumber(i.text, i.region)
    \/ \E i \in ReuseInputs : ParseAndKeepRawInputToNumber(i.text, i.region)

SpecReuse == Init /\ [][NextReuse]_vars

\* What the call of numA returns for its input on a new object.
OnNewObject(op, numberToParse, defaultRegion) ==
    IF op = "parseToNumber" THEN parse(World, numberToParse, defaultRegion).num
    ELSE parseAndKeepRawInput(World, numberToParse, defaultRegion).num

\* C29: after any sequence of parseToNumber and parseAndKeepRawInputToNumber
\* calls on one PhoneNumber, a call that succeeds leaves in it exactly the
\* fields the call returns for its input on a new object; nothing an earlier
\* call has set survives.
ReusedObjectAsNew ==
    (numA.origin \in { "parseToNumber", "parseAndKeepRawInputToNumber" }
       /\ numA.st = "ok")
       => numA.num = OnNewObject(numA.origin, numA.input, numA.region)

(***************************************************************************)
(* Specification SpecTruncate: one caller, after init(), builds a number   *)
(* and has it truncated.                                                   *)
(***************************************************************************)
\* [w, panic, ok, number]: number is the caller's object after the call.
Truncated(w, panic, ok, number) == [w |-> w, panic |-> panic, ok |-> ok, number |-> number]

\* valid: what isValidNumber(number) has returned.  var numberCopy
\* *PhoneNumber is nil when it is merged into, and still nil when
\* numberCopy.NationalNumber is assigned: no statement after these two is
\* ever reached.
truncateAfterValid(number, valid) ==
    LET numberCopy == None
        merged == protoMerge(numberCopy, number)
    IN  IF valid.panic # "" THEN Truncated(valid.w, valid.panic, FALSE, number)
        ELSE IF valid.valid THEN Truncated(valid.w, "", TRUE, number)
        ELSE IF merged.panic # "" THEN Truncated(valid.w, merged.panic, FALSE, number)
        ELSE Truncated(valid.w, NilDereference, FALSE, number)

truncateTooLongNumber(w, number) == truncateAfterValid(number, isValidNumber(w, number))

TruncateNumbers ==
    PossibleNumbers \cup ValidationNumbers
      \cup { [n EXCEPT !.ItalianLeadingZero = Some(TRUE)] : n \in PossibleNumbers }

\* r: what the call has returned; number: the caller's object before the call.
TruncateReturns(r, number) ==
    /\ verdict' = [NoVerdict EXCEPT !.op = "truncate", !.panic = r.panic,
                                    !.match = IF r.ok THEN "true" ELSE "false"]
    /\ numA' = [NoCall EXCEPT !.st = "ok", !.num = number, !.origin = "build"]
    /\ numB' = [NoCall EXCEPT !.st = "ok", !.num = r.number, !.origin = "truncate"]
    /\ text' = NoText
    /\ Globals(r.w)

\* ok := truncateTooLongNumber(number)
TruncateTooLongNumber(number) ==
    /\ pc["main"] = "idle"
    /\ TruncateReturns(truncateTooLongNumber(World, number), number)
    /\ Called("done")

NextTruncate == \E number \in TruncateNumbers : TruncateTooLongNumber(number)

SpecTruncate == Init /\ [][NextTruncate]_vars

\* short is long divided by a power of 10: its digits without the last ones.
DividedByPowerOfTen(short, long) ==
    \E k \in 0..(Len(long) - 1) : short = SubSeq(long, 1, Len(long) - k)

\* C30: truncateTooLongNumber returns for every number; when it returns
\* false the number passed is as it was; when it returns true the number
\* passed is valid, its national number is the one it had divided by a power
\* of 10 and its other fields are as they were.
TruncatesOrLeavesUnmodified ==
    verdict.op = "truncate" =>
        /\ verdict.panic = ""
        /\ verdict.match = "false" => numB.num = numA.num
        /\ verdict.match = "true" =>
              /\ isValidNumber(World, numB.num).valid
              /\ DividedByPowerOfTen(GetNationalNumber(numB.num),
                                     GetNationalNumber(numA.num))
              /\ numB.num = [numA.num EXCEPT !.NationalNumber = numB.num.NationalNumber]


====
